---- MODULE Spec2Model ----
(***************************************************************************)
(* Model of the Mimir processing core: the processor pipeline              *)
(* (src/processors/processor_pipeline.py), the URL deduplicator and its    *)
(* cache (src/processors/deduplicator.py, src/storages/cache_manager.py)   *)
(* and the cost tracker / budget gate (src/utils/cost_tracker.py,          *)
(* src/processors/llm_processor.py).                                       *)
(*                                                                         *)
(* The three subsystems share no state but the clock, so each has its own  *)
(* specification (SpecPipeline, SpecDedup, SpecCost) in which the          *)
(* variables of the other two stay at their initial values.                *)
(*                                                                         *)
(* CacheManager.clear_expired has no caller in main.py or main_async.py,   *)
(* so it is not an operation of the program and has no action here: within *)
(* a process the in-memory URL set changes only through add_url.  Writes   *)
(* of urls.json are taken to succeed.                                      *)
(*                                                                         *)
(* Further specifications cover the LLM stage (SpecLlm, llm_processor.py), *)
(* the cost ledger under concurrent stage threads (SpecLedger), the shared *)
(* embedding model of the semantic deduplicator (SpecContext), the run     *)
(* loops of main.py and main_async.py (SpecRun) and the two semaphores of  *)
(* main_async.py (SpecFanout, with weak fairness of the event loop).       *)
(*                                                                         *)
(* The scoring stages (quality assessment, information verification,       *)
(* priority ranking) run as one chain in SpecStages, with scores in units  *)
(* of 1/One; SpecKeyword is one call of KeywordProcessor.process and       *)
(* SpecPrune is record_call over a ledger holding entries around the       *)
(* retention horizon.                                                      *)
(***************************************************************************)
EXTENDS Integers, Sequences, FiniteSets, TLC

(***************************************************************************)
(* Bounds of the model.                                                    *)
(***************************************************************************)
MaxStages == 3

TtlDays == 2             \* CacheManager.ttl_days as configured

MaxDay == 3              \* the clock stops here

MonthLen == 2            \* days in a calendar month of the model

DailyLimit == 50         \* CostTracker.daily_limit, in tenths of a dollar (5.0)

MonthlyBudget == 80      \* CostTracker.monthly_budget as configured, in tenths of a dollar

RetentionDays == 90      \* _cleanup_old_data keeps this many days

MaxSpend == 70           \* no call is recorded once a day's spend would pass this

NumTasks == 2            \* item tasks inside the LLM stage at the same time

Tasks == 1..NumTasks

EstimatedCosts == {0, 4, 5, 10}   \* pre-call estimates, in tenths of a dollar

ActualCosts == {25, 45}           \* provider-reported costs, in tenths of a dollar

\* The links (CollectedEntry.link) of the entries seen.  A link is a validated
\* HttpUrl, so str(entry.link) is never empty and the `if not link` guards of
\* the deduplicator never fire.
Links == {"a", "b"}

MaxPasses == 2           \* times the same content is handed to the LLM stage

MaxLoads == 3            \* embedding models built in one run

MaxEntries == 2          \* entries the first source of a run returns at most

FanFeeds == 11           \* feed tasks of the run that fills the feed semaphore

FanItems == 6            \* entry tasks of the feed that fills its semaphore

VARIABLES
    \* ---- pipeline ----
    processors,   \* ProcessorPipeline.processors: the stage list handed to __init__
    chain,        \* ProcessorPipeline.chain: indices of the stages wrapped into runnables
    sPc,          \* position of the blocking call process(): "idle" | "done"
    sResult,      \* value returned by process()
    sRaised,      \* TRUE iff process() propagated an exception
    sLog,         \* stage invocations made by process(), in order
    aPc,          \* position of the coroutine aprocess(): "idle" | "running" | "invoked" | "done"
    aPos,         \* next position of the chain the coroutine will run
    aX,           \* value flowing through the chain inside aprocess()
    aResult,      \* value returned by aprocess()
    aRaised,      \* TRUE iff aprocess() propagated an exception
    aLog,         \* stage invocations made by aprocess(), in order
    \* ---- deduplicator and URL cache ----
    now,          \* the wall clock (datetime.now()), in days
    url_cache,    \* CacheManager._url_cache: the links held in memory
    url_file,     \* urls.json: link -> day written beside it
    addedAt,      \* history: day of the last add_url(link), -1 if never added
    markedRun,    \* history: links passed to mark_as_processed by the running process
    knownRun,     \* history: links for which is_duplicate returned true in the running process
    dLast,        \* history: the last deduplicator call and what it did
    \* ---- cost tracker and LLM stage ----
    cost_data,    \* CostTracker._cost_data: spend per date key and per month key
    llmPc,        \* per item task, where LLMProcessor.process stands
    cLast,        \* history: the last check_budget call and what it did
    \* ---- one call of LLMProcessor.process ----
    llm_config,   \* LLMProcessor.enabled, .features, .target_languages and the entry's content size
    llmEntry,     \* the ProcessedEntry the stage works on
    llmAt,        \* where process() stands, with its locals llm_features_used and translations
    llmHist,      \* history: what the calls of process() did so far
    \* ---- record_call in concurrent threads ----
    recPc,        \* per item task, where CostTracker.record_call stands
    recLocal,     \* per item task, the cost being recorded and the value last loaded
    recSum,       \* history: the sum of the costs handed to record_call
    recTorn,      \* history: TRUE once a check read the totals while a record was half done
    \* ---- the shared ProcessingContext ----
    embedding_model,  \* ProcessingContext.embedding_model: 0 for None, else the instance
    semPc,        \* per item task, where SemanticDeduplicatorProcessor.process stands
    semLocal,     \* per item task, the local variable embedding_model
    semLoads,     \* history: how many models _load_embedding_model has built
    semUsed,      \* history: per item task, the instance its last embedding was computed with
    \* ---- the run loop ----
    runMode,      \* "blocking" for main.py, "concurrent" for main_async.py
    sources,      \* rss_sources with what each collector does and returns
    stored,       \* the links of the pages the Notion database held before the run
    runPc,        \* "running" until the statistics are printed, then "done"
    feedPc,       \* per source, where its processing stands
    itemPc,       \* per collected entry, where its processing stands
    feedStats,    \* per source, the stats dict of process_feed_async
    stats,        \* stats of main.py, total_stats of main_async.py
    feedLog,      \* history: per source, the errors counted for the source itself
    itemLog,      \* history: per entry, what is_duplicate said and the counters it incremented
    \* ---- the semaphores of the concurrent run ----
    fanFeed,      \* the first feed task: "waiting" | "inside" | "done"
    fanOthers,    \* the other feed tasks: how many are waiting, inside, done
    fanItems,     \* per entry task of the first feed: "waiting" | "inside" | "done"
    \* ---- the scoring stages ----
    stage_config, \* which stages were built and the options each was built with
    collected,    \* the entry handed to the call, as the collector made it
    stX,          \* the value flowing through the chain (x of process_with_error_handling)
    stPc,         \* where the call stands: in the chain at a position, or "call" | "done"
    stHist        \* history: what the stages computed on the way

pipelineVars == <<processors, chain, sPc, sResult, sRaised, sLog,
                  aPc, aPos, aX, aResult, aRaised, aLog>>

dedupVars == <<now, url_cache, url_file, addedAt, markedRun, knownRun, dLast>>

costVars == <<cost_data, llmPc, cLast>>

llmVars == <<llm_config, llmEntry, llmAt, llmHist>>

ledgerVars == <<recPc, recLocal, recSum, recTorn>>

contextVars == <<embedding_model, semPc, semLocal, semLoads, semUsed>>

runVars == <<runMode, sources, stored, runPc, feedPc, itemPc, feedStats, stats,
             feedLog, itemLog>>

fanVars == <<fanFeed, fanOthers, fanItems>>

stageVars == <<stage_config, collected, stX, stPc, stHist>>

extraVars == <<llmVars, ledgerVars, contextVars, runVars, fanVars, stageVars>>

\* what the steps of one subsystem leave alone besides dedupVars and costVars
llmRest == <<pipelineVars, ledgerVars, contextVars, runVars, fanVars, stageVars>>

ledgerRest == <<pipelineVars, dedupVars, llmPc, cLast, llmVars, contextVars, runVars, fanVars,
                stageVars>>

contextRest == <<pipelineVars, dedupVars, costVars, llmVars, ledgerVars, runVars, fanVars,
                 stageVars>>

runRest == <<pipelineVars, now, addedAt, markedRun, knownRun, dLast, costVars,
             llmVars, ledgerVars, contextVars, fanVars, stageVars>>

fanRest == <<pipelineVars, dedupVars, costVars, llmVars, ledgerVars, contextVars, runVars,
             stageVars>>

stageRest == <<pipelineVars, dedupVars, costVars, llmVars, ledgerVars, contextVars, runVars,
               fanVars>>

vars == <<pipelineVars, dedupVars, costVars, extraVars>>

(***************************************************************************)
(* Values flowing through the chain.  kind is the class of the entry       *)
(* (CollectedEntry or its subclass ProcessedEntry), fields the set of      *)
(* stages whose field group has been written into it, skip the number of   *)
(* SkipMarker objects wrapped around it (0: a plain entry).                *)
(***************************************************************************)
CollectedEntry == [kind |-> "collected", fields |-> {}, skip |-> 0]

NoneValue == [kind |-> "none", fields |-> {}, skip |-> 0]

from_collected(x) == [kind |-> "processed", fields |-> {}, skip |-> 0]

SkipMarker(x) == [x EXCEPT !.skip = @ + 1]

IsSkipMarker(x) == x.skip > 0

IsProcessedEntry(x) == x.kind = "processed" /\ x.skip = 0

(***************************************************************************)
(* A stage is any BaseProcessor: its process() is abstract, so what it     *)
(* does with an entry, and with a SkipMarker handed to it in place of an   *)
(* entry, is drawn from the three outcomes the pipeline distinguishes:     *)
(* return an entry ("ok"), return None ("drop"), raise ("raise").          *)
(***************************************************************************)
Outcome == {"ok", "drop", "raise"}

BaseProcessor == [enabled : BOOLEAN, onEntry : Outcome, onMarker : Outcome]

is_enabled(p) == p.enabled

\* processor.process(entry, context) of stage i on value x
ProcessorProcess(x, i) ==
    LET p == processors[i]
        b == IF IsSkipMarker(x) THEN p.onMarker ELSE p.onEntry
    IN  [out |-> b,
         val |-> IF b = "ok"
                 THEN [kind |-> "processed",
                       fields |-> (IF IsSkipMarker(x) THEN {} ELSE x.fields) \cup {i},
                       skip |-> 0]
                 ELSE x]

\* One entry of an invocation log: stage i was invoked on x and did out.
LogEntry(x, i) == [stage |-> i, marker |-> IsSkipMarker(x), out |-> ProcessorProcess(x, i).out]

(***************************************************************************)
(* ProcessorPipeline._process_with_skip: None becomes a SkipMarker around  *)
(* the input, an exception propagates (exc).                               *)
(***************************************************************************)
ProcessWithSkip(x, i) ==
    LET r == ProcessorProcess(x, i)
    IN  IF r.out = "raise" THEN [exc |-> TRUE, val |-> x]
        ELSE IF r.out = "drop" THEN [exc |-> FALSE, val |-> SkipMarker(x)]
        ELSE [exc |-> FALSE, val |-> r.val]

\* faulty variant: the wrapper without its try/except
ProcessNoRecovery(x, i) == ProcessWithSkip(x, i)

(***************************************************************************)
(* process_with_error_handling, the closure _build_chain wraps around each *)
(* enabled stage: on any exception the input is passed through.            *)
(***************************************************************************)
ProcessWithErrorHandling(x, i) ==
    LET r == ProcessWithSkip(x, i)
    IN  IF r.exc THEN [exc |-> FALSE, val |-> x] ELSE r

\* faulty variant: every stage is wrapped, enabled or not
BuildChainNoFilter(ps) == [i \in 1..Len(ps) |-> i]

(***************************************************************************)
(* ProcessorPipeline._build_chain: the runnables, one per enabled stage,   *)
(* in list order.                                                          *)
(***************************************************************************)
BuildChain(ps) ==
    SelectSeq([i \in 1..Len(ps) |-> i], LAMBDA i : is_enabled(ps[i]))

(***************************************************************************)
(* chain.invoke(entry): the runnables run in sequence from position k, an  *)
(* exception leaving a runnable aborts the sequence.  An empty chain is    *)
(* the single runnable that converts the entry to a ProcessedEntry.        *)
(***************************************************************************)
RECURSIVE InvokeFrom(_, _, _)
InvokeFrom(x, k, log) ==
    IF k > Len(chain) THEN [exc |-> FALSE, val |-> x, log |-> log]
    ELSE LET r == ProcessWithErrorHandling(x, chain[k])
             l == Append(log, LogEntry(x, chain[k]))
         IN  IF r.exc THEN [exc |-> TRUE, val |-> x, log |-> l]
             ELSE InvokeFrom(r.val, k + 1, l)

ChainInvoke(x) ==
    IF Len(chain) = 0
    THEN [exc |-> FALSE, val |-> from_collected(x), log |-> <<>>]
    ELSE InvokeFrom(x, 1, <<>>)

\* the skip-marker check at the end of process()
ProcessReturn(r) == IF IsSkipMarker(r) THEN NoneValue ELSE r

\* faulty variant: aprocess() hands the chain's value back unchecked
AprocessReturnUnchecked(r) == r

\* the skip-marker check at the end of aprocess()
AprocessReturn(r) == IF IsSkipMarker(r) THEN NoneValue ELSE r

(***************************************************************************)
(* Pipeline: state after construction, for every stage list.               *)
(***************************************************************************)
StageLists == UNION {[1..n -> BaseProcessor] : n \in 0..MaxStages}

PipelineInit ==
    /\ processors \in StageLists
    /\ chain = BuildChain(processors)
    /\ sPc = "idle" /\ sResult = NoneValue /\ sRaised = FALSE /\ sLog = <<>>
    /\ aPc = "idle" /\ aPos = 1 /\ aX = NoneValue
    /\ aResult = NoneValue /\ aRaised = FALSE /\ aLog = <<>>

PipelineIdle ==
    /\ processors = <<>>
    /\ chain = BuildChain(processors)
    /\ sPc = "idle" /\ sResult = NoneValue /\ sRaised = FALSE /\ sLog = <<>>
    /\ aPc = "idle" /\ aPos = 1 /\ aX = NoneValue
    /\ aResult = NoneValue /\ aRaised = FALSE /\ aLog = <<>>

\* ProcessorPipeline.process(entry): blocking, one step
Process ==
    /\ sPc = "idle"
    /\ LET r == ChainInvoke(CollectedEntry)
       IN  /\ sRaised' = r.exc
           /\ sResult' = IF r.exc THEN NoneValue ELSE ProcessReturn(r.val)
           /\ sLog' = r.log
    /\ sPc' = "done"
    /\ UNCHANGED <<processors, chain, aPc, aPos, aX, aResult, aRaised, aLog, dedupVars, costVars, extraVars>>

\* ProcessorPipeline.aprocess(entry) is called: chain.ainvoke starts
AprocessStart ==
    /\ aPc = "idle"
    /\ aPc' = "running"
    /\ aPos' = 1
    /\ aX' = CollectedEntry
    /\ aLog' = <<>>
    /\ UNCHANGED <<processors, chain, sPc, sResult, sRaised, sLog, aResult, aRaised,
                 dedupVars, costVars, extraVars>>

\* chain.ainvoke awaits the next runnable (the stage function runs in the executor)
AprocessStep ==
    /\ aPc = "running"
    /\ IF Len(chain) = 0
       THEN /\ aX' = from_collected(aX)
            /\ aPc' = "invoked"
            /\ UNCHANGED <<aPos, aLog, aRaised>>
       ELSE /\ aPos <= Len(chain)
            /\ LET r == ProcessWithErrorHandling(aX, chain[aPos])
               IN  /\ aLog' = Append(aLog, LogEntry(aX, chain[aPos]))
                   /\ aRaised' = r.exc
                   /\ aX' = r.val
                   /\ aPos' = aPos + 1
                   /\ aPc' = IF r.exc THEN "done"
                             ELSE IF aPos = Len(chain) THEN "invoked" ELSE "running"
    /\ UNCHANGED <<processors, chain, sPc, sResult, sRaised, sLog, aResult, dedupVars, costVars, extraVars>>

\* the await returns and aprocess() checks for the skip marker
AprocessFinish ==
    /\ aPc = "invoked"
    /\ aResult' = AprocessReturn(aX)
    /\ aPc' = "done"
    /\ UNCHANGED <<processors, chain, sPc, sResult, sRaised, sLog, aPos, aX, aRaised, aLog,
                 dedupVars, costVars, extraVars>>

(***************************************************************************)
(* CacheManager (src/storages/cache_manager.py).                           *)
(***************************************************************************)
\* _is_valid_entry: age < timedelta(days=ttl_days)
is_valid_entry(timestamp, t) == t - timestamp < TtlDays

\* _load_cache: the links of the file whose timestamp is within the TTL;
\* without a file the set is left as it is.
load_cache(cache, file, t) ==
    IF DOMAIN file = {} THEN cache
    ELSE {url \in DOMAIN file : is_valid_entry(file[url], t)}

\* _save_cache: every link of the memory set is written with the current time
save_cache(cache, t) == [url \in cache |-> t]

has_url(cache, url) == url \in cache

\* faulty variant: add_url forgets what the set held
add_url_only(cache, url) == {url}

\* add_url: the memory set after _url_cache.add(url)
add_url(cache, url) == cache \cup {url}

(***************************************************************************)
(* Deduplicator (src/processors/deduplicator.py).                          *)
(***************************************************************************)
\* faulty variant: a store hit is reported but not written back to the cache
is_duplicate_no_backfill(cache, link, exists) ==
    IF has_url(cache, link)
    THEN [result |-> TRUE, storeCalled |-> FALSE, added |-> FALSE, cache |-> cache]
    ELSE [result |-> exists, storeCalled |-> TRUE, added |-> FALSE, cache |-> cache]

\* is_duplicate(entry) on the memory set, exists being what storage.exists
\* answers if it is asked: the result, whether the store was asked, whether
\* add_url ran, and the memory set afterwards.
is_duplicate(cache, link, exists) ==
    IF has_url(cache, link)
    THEN [result |-> TRUE, storeCalled |-> FALSE, added |-> FALSE, cache |-> cache]
    ELSE IF exists
    THEN [result |-> TRUE, storeCalled |-> TRUE, added |-> TRUE,
          cache |-> add_url(cache, link)]
    ELSE [result |-> FALSE, storeCalled |-> TRUE, added |-> FALSE, cache |-> cache]

NoCall == [op |-> "none", link |-> "", at |-> 0, result |-> FALSE, storeCalled |-> FALSE,
           exists |-> FALSE, hit |-> FALSE, known |-> FALSE, marked |-> FALSE, cacheSame |-> TRUE]

DedupInit ==
    /\ now = 0
    /\ url_cache = {}
    /\ url_file = [url \in {} |-> 0]
    /\ addedAt = [url \in Links |-> -1]
    /\ markedRun = {}
    /\ knownRun = {}
    /\ dLast = NoCall

\* Deduplicator.is_duplicate(entry) for an entry with link `link`
IsDuplicate(link, exists) ==
    LET r == is_duplicate(url_cache, link, exists)
    IN  /\ url_cache' = r.cache
        /\ url_file' = IF r.added THEN save_cache(r.cache, now) ELSE url_file
        /\ addedAt' = IF r.added THEN [addedAt EXCEPT ![link] = now] ELSE addedAt
        /\ knownRun' = IF r.result THEN knownRun \cup {link} ELSE knownRun
        /\ dLast' = [op |-> "is_duplicate", link |-> link, at |-> now,
                     result |-> r.result, storeCalled |-> r.storeCalled,
                     exists |-> exists,
                     hit |-> has_url(url_cache, link),
                     known |-> link \in knownRun,
                     marked |-> link \in markedRun,
                     cacheSame |-> r.cache = url_cache]
        /\ UNCHANGED <<now, markedRun, pipelineVars, costVars, extraVars>>

\* Deduplicator.mark_as_processed(entry): add_url, which saves the file
MarkAsProcessed(link) ==
    /\ url_cache' = add_url(url_cache, link)
    /\ url_file' = save_cache(url_cache', now)
    /\ addedAt' = [addedAt EXCEPT ![link] = now]
    /\ markedRun' = markedRun \cup {link}
    /\ dLast' = [NoCall EXCEPT !.op = "mark_as_processed", !.link = link, !.at = now]
    /\ UNCHANGED <<now, knownRun, pipelineVars, costVars, extraVars>>

\* a day passes
Tick ==
    /\ now < MaxDay
    /\ now' = now + 1
    /\ UNCHANGED <<url_cache, url_file, addedAt, markedRun, knownRun, dLast,
                 pipelineVars, costVars, extraVars>>

\* the process ends and the next run constructs a new CacheManager
Restart ==
    /\ url_cache' = load_cache({}, url_file, now)
    /\ markedRun' = {}
    /\ knownRun' = {}
    /\ dLast' = NoCall
    /\ UNCHANGED <<now, url_file, addedAt, pipelineVars, costVars, extraVars>>

(***************************************************************************)
(* CostTracker (src/utils/cost_tracker.py).  Date keys are day numbers,    *)
(* month keys the number of the month the day falls in; both order as the  *)
(* "%Y-%m-%d" and "%Y-%m" strings do.                                      *)
(***************************************************************************)
get_date_key(date) == date

get_month_key(date) == date \div MonthLen

get_daily_cost(data, date) ==
    IF get_date_key(date) \in DOMAIN data.daily THEN data.daily[get_date_key(date)] ELSE 0

get_monthly_cost(data, date) ==
    IF get_month_key(date) \in DOMAIN data.monthly
    THEN data.monthly[get_month_key(date)] ELSE 0

\* faulty variant: a call landing exactly on a limit is refused
check_budget_inclusive(data, date, estimated_cost) ==
    /\ ~(get_daily_cost(data, date) + estimated_cost >= DailyLimit)
    /\ ~(get_monthly_cost(data, date) + estimated_cost >= MonthlyBudget)

\* check_budget: TRUE when it returns True, FALSE when it raises
\* BudgetExceededError
check_budget(data, date, estimated_cost) ==
    /\ ~(get_daily_cost(data, date) + estimated_cost > DailyLimit)
    /\ ~(get_monthly_cost(data, date) + estimated_cost > MonthlyBudget)

\* faulty variant: the entry of the cutoff day goes as well
cleanup_old_data_inclusive(data, date) ==
    LET cutoff_key == get_date_key(date - RetentionDays)
        kept == {key \in DOMAIN data.daily : ~(key <= cutoff_key)}
    IN  [data EXCEPT !.daily = [key \in kept |-> data.daily[key]]]

\* _cleanup_old_data: date keys before the cutoff go, month keys stay
cleanup_old_data(data, date) ==
    LET cutoff_key == get_date_key(date - RetentionDays)
        kept == {key \in DOMAIN data.daily : ~(key < cutoff_key)}
    IN  [data EXCEPT !.daily = [key \in kept |-> data.daily[key]]]

\* record_call(cost) with date None: both entries are created if missing,
\* the cost is added to both, old date keys are removed
record_call(data, date, cost) ==
    LET date_key == get_date_key(date)
        month_key == get_month_key(date)
        daily == [key \in DOMAIN data.daily \cup {date_key} |->
                    (IF key \in DOMAIN data.daily THEN data.daily[key] ELSE 0)
                    + (IF key = date_key THEN cost ELSE 0)]
        monthly == [key \in DOMAIN data.monthly \cup {month_key} |->
                    (IF key \in DOMAIN data.monthly THEN data.monthly[key] ELSE 0)
                    + (IF key = month_key THEN cost ELSE 0)]
    IN  cleanup_old_data([daily |-> daily, monthly |-> monthly], date)

EmptyLedger == [daily |-> [key \in {} |-> 0], monthly |-> [key \in {} |-> 0]]

NoCheck == [op |-> "none", at |-> 0, estimated |-> 0, allowed |-> FALSE, before |-> EmptyLedger]

CostInit ==
    /\ cost_data = EmptyLedger
    /\ llmPc = [t \in Tasks |-> "idle"]
    /\ cLast = NoCheck

Checked(estimated, allowed) ==
    [op |-> "check_budget", at |-> now, estimated |-> estimated, allowed |-> allowed,
     before |-> cost_data]

\* the days of earlier runs whose entries cost.json may still hold, counted
\* from the day the process starts (day 0)
StoredDays == {0 - RetentionDays - 2, 0 - RetentionDays - 1, 0 - RetentionDays,
               0 - RetentionDays + 1}

\* _load_cost_data: the ledger earlier runs left on disk, 1.0 spent on each
\* of the days it holds and every month of those days with its total
StoredLedgers ==
    {[daily |-> [key \in days |-> 10],
      monthly |-> [m \in {get_month_key(d) : d \in days} |->
                     10 * Cardinality({d \in days : get_month_key(d) = m})]] :
        days \in SUBSET StoredDays}

PruneInit ==
    /\ cost_data \in StoredLedgers
    /\ llmPc = [t \in Tasks |-> "idle"]
    /\ cLast = NoCheck

\* CostTracker.record_call(cost, tokens, model) with date None
RecordCall(cost) ==
    /\ get_daily_cost(cost_data, now) + cost <= MaxSpend
    /\ cost_data' = record_call(cost_data, now, cost)
    /\ cLast' = [op |-> "record_call", at |-> now, estimated |-> cost, allowed |-> TRUE,
                 before |-> cost_data]
    /\ UNCHANGED <<llmPc, now, pipelineVars, url_cache, url_file, addedAt,
                   markedRun, knownRun, dLast, extraVars>>

(***************************************************************************)
(* LLMProcessor.process inside an item task (src/processors/               *)
(* llm_processor.py).  The stage functions of concurrent items run in      *)
(* executor threads, so the steps of different tasks interleave.           *)
(***************************************************************************)
\* process(): the budget check before any feature (check_budget())
LlmProcessStart(t) ==
    /\ llmPc[t] = "idle"
    /\ LET allowed == check_budget(cost_data, now, 0)
       IN  /\ llmPc' = [llmPc EXCEPT ![t] = IF allowed THEN "features" ELSE "idle"]
           /\ cLast' = Checked(0, allowed)
    /\ UNCHANGED <<cost_data, now, pipelineVars, url_cache, url_file, addedAt,
                   markedRun, knownRun, dLast, extraVars>>

\* _call_llm of the next feature: check_budget(estimated_cost); a refusal is
\* caught by the feature, which gives up its call
LlmCallCheck(t, estimated_cost) ==
    /\ llmPc[t] = "features"
    /\ LET allowed == check_budget(cost_data, now, estimated_cost)
       IN  /\ llmPc' = [llmPc EXCEPT ![t] = IF allowed THEN "calling" ELSE "features"]
           /\ cLast' = Checked(estimated_cost, allowed)
    /\ UNCHANGED <<cost_data, now, pipelineVars, url_cache, url_file, addedAt,
                   markedRun, knownRun, dLast, extraVars>>

\* _call_llm: completion() returned, record_call(cost) of the actual cost
LlmCallRecord(t, cost) ==
    /\ llmPc[t] = "calling"
    /\ get_daily_cost(cost_data, now) + cost <= MaxSpend
    /\ cost_data' = record_call(cost_data, now, cost)
    /\ llmPc' = [llmPc EXCEPT ![t] = "features"]
    /\ cLast' = NoCheck
    /\ UNCHANGED <<now, pipelineVars, url_cache, url_file, addedAt,
                   markedRun, knownRun, dLast, extraVars>>

\* _call_llm: completion() raised; nothing is recorded
LlmCallFail(t) ==
    /\ llmPc[t] = "calling"
    /\ llmPc' = [llmPc EXCEPT ![t] = "features"]
    /\ UNCHANGED <<cost_data, cLast, now, pipelineVars, url_cache, url_file, addedAt,
                   markedRun, knownRun, dLast, extraVars>>

\* process() returns the entry
LlmProcessReturn(t) ==
    /\ llmPc[t] = "features"
    /\ llmPc' = [llmPc EXCEPT ![t] = "idle"]
    /\ UNCHANGED <<cost_data, cLast, now, pipelineVars, url_cache, url_file, addedAt,
                   markedRun, knownRun, dLast, extraVars>>

(***************************************************************************)
(* One call of LLMProcessor.process(entry), feature by feature             *)
(* (src/processors/llm_processor.py).  An LLM field of the entry is TRUE   *)
(* when it is not None; translation is the set of languages of the dict    *)
(* ({} when the field is None).  content is the size class of              *)
(* title + summary: "tiny" < 20 characters, "short" < 50, "long" otherwise.*)
(***************************************************************************)
Langs == {"zh", "ja"}

TargetLists == {<<>>, <<"zh">>, <<"zh", "ja">>}

CallKeys == {"summary", "categorize"} \cup Langs

PriorSpends == {0, 45, 55}

\* what one completion() call can end in: a usable answer, APIError or
\* RateLimitError, an answer that json.loads rejects, an answer the feature
\* cannot use at all (content None, or JSON that is not an object)
CallOutcomes == {"ok", "api_error", "bad_json", "bad_response"}

\* ProcessedEntry as the stage receives it: the LLM fields default to None and
\* processing_method defaults to "keyword"
FreshEntry(method, keyword_ran) ==
    [summary_llm |-> FALSE, translation |-> {}, topics_llm |-> FALSE,
     priority_llm |-> FALSE, processing_method |-> method, keyword_ran |-> keyword_ran]

\* the entries the pipeline hands the stage: straight from from_collected
\* (no keyword classification has run) or after the keyword stage; in both
\* processing_method holds its default
EntriesIn == {FreshEntry("keyword", FALSE), FreshEntry("keyword", TRUE)}

AtStart == [at |-> "start", phase |-> "begin", langs |-> <<>>, used |-> FALSE, trans |-> {}]

FreshHist(pass, calls, recorded, methodIn) ==
    [pass |-> pass, calls |-> calls, recorded |-> recorded, methodIn |-> methodIn,
     attempted |-> {}, refused |-> {}, called |-> {}, failed |-> {}, succeeded |-> {},
     refusedInit |-> FALSE, raisedBy |-> "none"]

LlmInit ==
    /\ llm_config \in [enabled: BOOLEAN, summarization: BOOLEAN, translation: BOOLEAN,
                       smart_categorization: BOOLEAN, target_languages: TargetLists,
                       content: {"tiny", "short", "long"}, estimate: {4, 10}]
    /\ llmEntry \in EntriesIn
    /\ llmAt = AtStart
    /\ llmHist = FreshHist(1, [k \in CallKeys |-> 0], [k \in CallKeys |-> 0],
                           llmEntry.processing_method)

LlmIdle ==
    /\ llm_config = [enabled |-> FALSE, summarization |-> FALSE, translation |-> FALSE,
                     smart_categorization |-> FALSE, target_languages |-> <<>>,
                     content |-> "tiny", estimate |-> 4]
    /\ llmEntry = FreshEntry("keyword", FALSE)
    /\ llmAt = AtStart
    /\ llmHist = FreshHist(1, [k \in CallKeys |-> 0], [k \in CallKeys |-> 0], "keyword")

\* the ledger as _load_cost_data finds it: some spend already recorded today
LedgerWith(spent) ==
    IF spent = 0 THEN EmptyLedger
    ELSE record_call(EmptyLedger, 0, spent)

\* the key of the call the stage is about to make
CallKey(a) == IF a.at = "translate" THEN Head(a.langs) ELSE a.at

\* the feature after f in process()
FeatureAfter(f) ==
    CASE f = "summary"    -> "translate"
      [] f = "translate"  -> "categorize"
      [] f = "categorize" -> "method"

Goto(a, f) == [a EXCEPT !.at = f, !.phase = "begin", !.langs = <<>>]

\* faulty variant: a feature that lets its failure through to process(), whose
\* except clause then returns the entry at once
FeatureAborts(a, e, key, ok) ==
    IF ~ok THEN [at |-> Goto(a, "returned"), entry |-> e]
    ELSE IF key = "summary"
         THEN [at |-> [Goto(a, "translate") EXCEPT !.used = TRUE],
               entry |-> [e EXCEPT !.summary_llm = TRUE]]
    ELSE IF key = "categorize"
         THEN [at |-> [Goto(a, "method") EXCEPT !.used = TRUE],
               entry |-> [e EXCEPT !.topics_llm = TRUE, !.priority_llm = TRUE]]
    ELSE IF Tail(a.langs) # <<>>
         THEN [at |-> [a EXCEPT !.langs = Tail(a.langs), !.phase = "check",
                                !.trans = a.trans \cup {key}],
               entry |-> e]
    ELSE [at |-> [Goto(a, "categorize") EXCEPT !.used = TRUE, !.trans = {}],
          entry |-> [e EXCEPT !.translation = a.trans \cup {key}]]

\* the call for `key` came back to its feature: ok with a usable answer, ~ok
\* with an error the feature catches (it then yields None, or skips the
\* language); process() assigns the fields and moves on
FeatureReturned(a, e, key, ok) ==
    IF key = "summary"
    THEN [at |-> [Goto(a, "translate") EXCEPT !.used = a.used \/ ok],
          entry |-> [e EXCEPT !.summary_llm = ok]]
    ELSE IF key = "categorize"
    THEN [at |-> [Goto(a, "method") EXCEPT !.used = a.used \/ ok],
          entry |-> [e EXCEPT !.topics_llm = ok, !.priority_llm = ok]]
    ELSE LET translations == IF ok THEN a.trans \cup {key} ELSE a.trans
         IN  IF Tail(a.langs) # <<>>
             THEN [at |-> [a EXCEPT !.langs = Tail(a.langs), !.phase = "check",
                                    !.trans = translations],
                   entry |-> e]
             ELSE [at |-> [Goto(a, "categorize") EXCEPT
                              !.used = a.used \/ (translations # {}), !.trans = {}],
                   entry |-> [e EXCEPT !.translation = translations]]

\* faulty variant: a stage that goes on whatever the gate said
goes_on_always(data, date, estimated_cost) == TRUE

\* process() and _call_llm go on past check_budget iff it did not raise
\* BudgetExceededError
goes_on(data, date, estimated_cost) == check_budget(data, date, estimated_cost)

\* lines 113-118 of process(): the processing method after the features
updated_method(method, llm_features_used) ==
    IF llm_features_used
    THEN IF method = "keyword" THEN "hybrid" ELSE "llm"
    ELSE method

\* process(): the test that guards feature f
FeatureOn(f) ==
    CASE f = "summary"    -> llm_config.summarization
      [] f = "translate"  -> llm_config.translation /\ llm_config.target_languages # <<>>
      [] f = "categorize" -> llm_config.smart_categorization

\* the length test at the top of each feature: 50 characters for a summary,
\* 20 for a translation or a categorization
EnoughContent(f) ==
    IF f = "summary" THEN llm_config.content = "long" ELSE llm_config.content # "tiny"

\* process() up to the features: conversion, the enabled test, check_budget()
ProcessBegin ==
    /\ llmAt.at = "start"
    /\ IF ~llm_config.enabled
       THEN /\ llmAt' = Goto(llmAt, "returned")
            /\ UNCHANGED llmHist
       ELSE /\ llmAt' = IF goes_on(cost_data, now, 0)
                         THEN Goto(llmAt, "summary")
                         ELSE Goto(llmAt, "returned")
            /\ llmHist' = [llmHist EXCEPT !.refusedInit = ~check_budget(cost_data, now, 0)]
    /\ UNCHANGED <<llm_config, llmEntry, llmRest, dedupVars, costVars>>

\* process() reaches a feature: is it switched on, and is the content long
\* enough for the feature to build a prompt
FeatureBegin ==
    /\ llmAt.at \in {"summary", "translate", "categorize"}
    /\ llmAt.phase = "begin"
    /\ LET f == llmAt.at
           on == FeatureOn(f)
           enough == EnoughContent(f)
       IN  /\ llmHist' = IF on THEN [llmHist EXCEPT !.attempted = @ \cup {f}] ELSE llmHist
           /\ llmAt' = IF on /\ enough
                       THEN [llmAt EXCEPT !.phase = "check",
                                          !.langs = IF f = "translate"
                                                    THEN llm_config.target_languages
                                                    ELSE <<>>]
                       ELSE Goto(llmAt, FeatureAfter(f))
    /\ UNCHANGED <<llm_config, llmEntry, llmRest, dedupVars, costVars>>

\* _call_llm: check_budget(estimated_cost) before completion()
CallLlmCheck ==
    /\ llmAt.phase = "check"
    /\ LET key == CallKey(llmAt)
           signalled == ~check_budget(cost_data, now, llm_config.estimate)
           noted == [llmHist EXCEPT !.refused = IF signalled THEN @ \cup {key} ELSE @]
       IN  IF goes_on(cost_data, now, llm_config.estimate)
           THEN /\ llmAt' = [llmAt EXCEPT !.phase = "call"]
                /\ llmHist' = noted
                /\ UNCHANGED llmEntry
           ELSE LET r == FeatureReturned(llmAt, llmEntry, key, FALSE)
                IN  /\ llmAt' = r.at
                    /\ llmEntry' = r.entry
                    /\ llmHist' = [noted EXCEPT !.failed = @ \cup {key}]
    /\ UNCHANGED <<llm_config, llmRest, dedupVars, costVars>>

\* _call_llm: completion() and what follows it
CallLlmComplete(outcome, cost) ==
    /\ llmAt.phase = "call"
    /\ outcome = "bad_json" => llmAt.at = "categorize"
    /\ LET key == CallKey(llmAt)
           called == [llmHist EXCEPT !.calls[key] = @ + 1, !.called = @ \cup {key}]
       IN  IF outcome = "api_error"
           THEN LET r == FeatureReturned(llmAt, llmEntry, key, FALSE)
                IN  /\ llmAt' = r.at
                    /\ llmEntry' = r.entry
                    /\ llmHist' = [called EXCEPT !.failed = @ \cup {key}]
                    /\ UNCHANGED cost_data
           ELSE /\ cost_data' = record_call(cost_data, now, cost)
                /\ IF outcome = "bad_response"
                   THEN /\ llmAt' = [llmAt EXCEPT !.at = "raised", !.phase = "begin"]
                        /\ llmHist' = [called EXCEPT !.recorded[key] = @ + 1,
                                                     !.raisedBy = key]
                        /\ UNCHANGED llmEntry
                   ELSE LET r == FeatureReturned(llmAt, llmEntry, key, outcome = "ok")
                        IN  /\ llmAt' = r.at
                            /\ llmEntry' = r.entry
                            /\ llmHist' = [called EXCEPT
                                   !.recorded[key] = @ + 1,
                                   !.failed = IF outcome = "ok" THEN @ ELSE @ \cup {key},
                                   !.succeeded = IF outcome = "ok" THEN @ \cup {key} ELSE @]
    /\ UNCHANGED <<llm_config, llmRest, dedupVars, llmPc, cLast>>

\* process_with_error_handling when the stage raised: `return x`.  x is the
\* object the stage was handed: for a ProcessedEntry the one process() wrote
\* into (processed = entry), for a CollectedEntry the one it copied from
handed_on(at_invocation, processed, in_place) ==
    IF in_place THEN processed ELSE at_invocation

\* process(): the processing method is updated and the entry returned
UpdateMethod ==
    /\ llmAt.at = "method"
    /\ llmEntry' = [llmEntry EXCEPT
                       !.processing_method = updated_method(@, llmAt.used)]
    /\ llmAt' = [llmAt EXCEPT !.at = "returned"]
    /\ UNCHANGED <<llm_config, llmHist, llmRest, dedupVars, costVars>>

\* the same content reaches the stage again (the item collected anew)
ProcessAgain ==
    /\ llmAt.at \in {"returned", "raised"}
    /\ llmHist.pass < MaxPasses
    /\ llmEntry' = FreshEntry(llmHist.methodIn, llmEntry.keyword_ran)
    /\ llmAt' = AtStart
    /\ llmHist' = FreshHist(llmHist.pass + 1, llmHist.calls, llmHist.recorded,
                            llmHist.methodIn)
    /\ UNCHANGED <<llm_config, llmRest, dedupVars, costVars>>

(***************************************************************************)
(* CostTracker.record_call(cost) run by the stage functions of concurrent  *)
(* items.  aprocess() runs each stage function in an executor thread and   *)
(* CostTracker holds no lock, so the loads and stores of                   *)
(*     self._cost_data[key]["cost"] += cost                                *)
(* of different threads interleave.                                        *)
(***************************************************************************)
LedgerInit ==
    /\ recPc = [t \in Tasks |-> "idle"]
    /\ recLocal = [t \in Tasks |-> [cost |-> 0, loaded |-> 0]]
    /\ recSum = 0
    /\ recTorn = FALSE

\* between the first load and the last store of its record_call
HalfDone(t) == recPc[t] \in {"daily_store", "month_load", "month_store"}

\* _call_llm hands the cost of a finished call to record_call
RecordCallBegin(t, cost) ==
    /\ recPc[t] = "idle"
    /\ recSum + cost <= MaxSpend
    /\ recPc' = [recPc EXCEPT ![t] = "init"]
    /\ recLocal' = [recLocal EXCEPT ![t] = [cost |-> cost, loaded |-> 0]]
    /\ recSum' = recSum + cost
    /\ UNCHANGED <<cost_data, recTorn, ledgerRest>>

\* record_call: the date and month entries are created if missing
RecordInit(t) ==
    /\ recPc[t] = "init"
    /\ cost_data' = record_call(cost_data, now, 0)
    /\ recPc' = [recPc EXCEPT ![t] = "daily_load"]
    /\ UNCHANGED <<recLocal, recSum, recTorn, ledgerRest>>

\* record_call: the left operand of  _cost_data[date_key]["cost"] += cost
RecordDailyLoad(t) ==
    /\ recPc[t] = "daily_load"
    /\ recLocal' = [recLocal EXCEPT ![t].loaded = get_daily_cost(cost_data, now)]
    /\ recPc' = [recPc EXCEPT ![t] = "daily_store"]
    /\ UNCHANGED <<cost_data, recSum, recTorn, ledgerRest>>

\* record_call: the store of  _cost_data[date_key]["cost"] += cost
RecordDailyStore(t) ==
    /\ recPc[t] = "daily_store"
    /\ cost_data' = [cost_data EXCEPT
                        !.daily[get_date_key(now)] = recLocal[t].loaded + recLocal[t].cost]
    /\ recPc' = [recPc EXCEPT ![t] = "month_load"]
    /\ UNCHANGED <<recLocal, recSum, recTorn, ledgerRest>>

\* record_call: the left operand of  _cost_data[month_key]["cost"] += cost
RecordMonthLoad(t) ==
    /\ recPc[t] = "month_load"
    /\ recLocal' = [recLocal EXCEPT ![t].loaded = get_monthly_cost(cost_data, now)]
    /\ recPc' = [recPc EXCEPT ![t] = "month_store"]
    /\ UNCHANGED <<cost_data, recSum, recTorn, ledgerRest>>

\* record_call: the store of the month total, then _cleanup_old_data and
\* _save_cost_data
RecordMonthStore(t) ==
    /\ recPc[t] = "month_store"
    /\ cost_data' = cleanup_old_data(
                        [cost_data EXCEPT !.monthly[get_month_key(now)] =
                                              recLocal[t].loaded + recLocal[t].cost],
                        now)
    /\ recPc' = [recPc EXCEPT ![t] = "idle"]
    /\ UNCHANGED <<recLocal, recSum, recTorn, ledgerRest>>

\* check_budget(estimated_cost) of a task that is not recording: it reads
\* both totals as they stand
LedgerCheck(t) ==
    /\ recPc[t] = "idle"
    /\ recTorn' = (recTorn \/ \E u \in Tasks \ {t} : HalfDone(u))
    /\ UNCHANGED <<cost_data, recPc, recLocal, recSum, ledgerRest>>

(***************************************************************************)
(* SemanticDeduplicatorProcessor.process(entry, context) run by the stage  *)
(* functions of concurrent items on the one ProcessingContext of the run   *)
(* (src/processors/semantic_deduplicator_processor.py).  Model instances   *)
(* are numbered in the order the loader builds them.                       *)
(***************************************************************************)
ContextInit ==
    /\ embedding_model = 0
    /\ semPc = [t \in Tasks |-> "idle"]
    /\ semLocal = [t \in Tasks |-> 0]
    /\ semLoads = 0
    /\ semUsed = [t \in Tasks |-> 0]

\* process() is entered with enough content; embedding_model = None
SemBegin(t) ==
    /\ semPc[t] = "idle"
    /\ semPc' = [semPc EXCEPT ![t] = "test"]
    /\ semLocal' = [semLocal EXCEPT ![t] = 0]
    /\ UNCHANGED <<embedding_model, semLoads, semUsed, contextRest>>

\* if context and context.embedding_model: ... elif self.embedding_model_name:
SemTest(t) ==
    /\ semPc[t] = "test"
    /\ IF embedding_model # 0
       THEN /\ semLocal' = [semLocal EXCEPT ![t] = embedding_model]
            /\ semPc' = [semPc EXCEPT ![t] = "compute"]
       ELSE /\ semPc' = [semPc EXCEPT ![t] = "load"]
            /\ UNCHANGED semLocal
    /\ UNCHANGED <<embedding_model, semLoads, semUsed, contextRest>>

\* _load_embedding_model(name) builds a SentenceTransformer
SemLoad(t) ==
    /\ semPc[t] = "load"
    /\ semLoads < MaxLoads
    /\ semLoads' = semLoads + 1
    /\ semLocal' = [semLocal EXCEPT ![t] = semLoads + 1]
    /\ semPc' = [semPc EXCEPT ![t] = "store"]
    /\ UNCHANGED <<embedding_model, semUsed, contextRest>>

\* _load_embedding_model raises (ImportError, a download that fails): the
\* stage logs it and returns the entry
SemLoadFail(t) ==
    /\ semPc[t] = "load"
    /\ semPc' = [semPc EXCEPT ![t] = "idle"]
    /\ UNCHANGED <<embedding_model, semLocal, semLoads, semUsed, contextRest>>

\* context.embedding_model = embedding_model
SemStore(t) ==
    /\ semPc[t] = "store"
    /\ embedding_model' = semLocal[t]
    /\ semPc' = [semPc EXCEPT ![t] = "compute"]
    /\ UNCHANGED <<semLocal, semLoads, semUsed, contextRest>>

\* _compute_embedding(content, embedding_model, context); process() returns
SemCompute(t) ==
    /\ semPc[t] = "compute"
    /\ semPc' = [semPc EXCEPT ![t] = "idle"]
    /\ semUsed' = [semUsed EXCEPT ![t] = semLocal[t]]
    /\ UNCHANGED <<embedding_model, semLocal, semLoads, contextRest>>

(***************************************************************************)
(* The run loop: main() of main.py (blocking) and main_async() with        *)
(* process_feed_async of main_async.py (concurrent).  A source is what its *)
(* collector does: it raises, or it returns a list of entries.  An entry   *)
(* carries its link and what the collaborators do with it after the        *)
(* duplicate check: the pipeline drops it, or storage.save returns True,   *)
(* returns False, or raises.                                               *)
(***************************************************************************)
FeedLimit == 10

ItemLimit == 5

ItemOutcomes == {"drop", "save_true", "save_false", "save_raise"}

RunEntries == [link : Links, outcome : ItemOutcomes]

EntryLists(n) == UNION {[1..k -> RunEntries] : k \in 0..n}

SourcesUpTo(n) ==
    {[raises |-> TRUE, entries |-> <<>>]}
    \cup {[raises |-> FALSE, entries |-> es] : es \in EntryLists(n)}

\* the runs checked: a source with up to MaxEntries entries of any kind, and
\* a second source whose collector raises or returns one entry with the
\* link "a" that is saved or whose save raises
RunInputs ==
    {<<s1, s2>> :
        s1 \in SourcesUpTo(MaxEntries),
        s2 \in {[raises |-> TRUE, entries |-> <<>>]}
               \cup {[raises |-> FALSE, entries |-> <<[link |-> "a", outcome |-> o]>>] :
                        o \in {"save_true", "save_raise"}}}

Feeds == DOMAIN sources

Items == UNION {{<<f, i>> : i \in DOMAIN sources[f].entries} : f \in Feeds}

ItemsOf(f) == {it \in Items : it[1] = f}

EntryOf(it) == sources[it[1]].entries[it[2]]

ZeroStats == [created |-> 0, skipped |-> 0, errors |-> 0]

RECURSIVE SumStats(_, _, _)
\* the sum of counter c over the first n feed results
SumStats(results, c, n) ==
    IF n = 0 THEN 0 ELSE results[n][c] + SumStats(results, c, n - 1)

Bump(st, counters) ==
    [c \in DOMAIN st |-> st[c] + Cardinality({k \in DOMAIN counters : counters[k] = c})]

\* faulty variant: a save that returns False is not counted
counters_uncounted(outcome) ==
    CASE outcome = "drop"       -> <<"skipped">>
      [] outcome = "save_true"  -> <<"created">>
      [] outcome = "save_false" -> <<>>
      [] outcome = "save_raise" -> <<"errors">>

\* the counters an entry increments once it is past the duplicate check:
\* skipped for None from the pipeline, created or errors by what save
\* returns, errors in the except clause of the item
counters_after_check(outcome) ==
    CASE outcome = "drop"       -> <<"skipped">>
      [] outcome = "save_true"  -> <<"created">>
      [] outcome = "save_false" -> <<"errors">>
      [] outcome = "save_raise" -> <<"errors">>

\* faulty variant: without the try around the item, an exception leaves the
\* loop over the entries and the entries still waiting are never processed
item_raised_abandons(pcs, item) ==
    [it \in DOMAIN pcs |->
        IF it = item THEN "done"
        ELSE IF it[1] = item[1] /\ pcs[it] = "waiting" THEN "abandoned"
        ELSE pcs[it]]

\* an exception of one item is caught by the except clause of that item:
\* the item is over, no other item is touched
item_raised(pcs, item) == [pcs EXCEPT ![item] = "done"]

RunInit ==
    /\ runMode \in {"blocking", "concurrent"}
    /\ sources \in RunInputs
    /\ stored \in {{}, {"a"}}
    /\ runPc = "running"
    /\ feedPc = [f \in Feeds |-> "waiting"]
    /\ itemPc = [it \in Items |-> "waiting"]
    /\ feedStats = [f \in Feeds |-> ZeroStats]
    /\ stats = ZeroStats
    /\ feedLog = [f \in Feeds |-> 0]
    /\ itemLog = [it \in Items |-> [dup |-> FALSE, hits |-> <<>>]]

RunIdle ==
    /\ runMode = "blocking"
    /\ sources = <<>>
    /\ stored = {}
    /\ runPc = "done"
    /\ feedPc = <<>>
    /\ itemPc = <<>>
    /\ feedStats = <<>>
    /\ stats = ZeroStats
    /\ feedLog = <<>>
    /\ itemLog = <<>>

\* the item up to the pipeline: deduplicator.is_duplicate(entry) and the
\* skipped counter
item_check(cache, db, entry) ==
    LET d == is_duplicate(cache, entry.link, entry.link \in db)
    IN  [dup |-> d.result,
         hits |-> IF d.result THEN <<"skipped">> ELSE <<>>,
         cache |-> d.cache, db |-> db, wrote |-> d.added, raised |-> FALSE]

\* faulty variant: mark_as_processed runs after every storage.save that
\* returned, whatever it returned
item_after_marks_unsaved(cache, db, entry) ==
    LET saved == entry.outcome = "save_true"
        returned == entry.outcome \in {"save_true", "save_false"}
    IN  [dup |-> FALSE,
         hits |-> counters_after_check(entry.outcome),
         cache |-> IF returned THEN add_url(cache, entry.link) ELSE cache,
         db |-> IF saved THEN db \cup {entry.link} ELSE db,
         wrote |-> returned,
         raised |-> entry.outcome = "save_raise"]

\* the item after the pipeline: the None test, storage.save, the counters,
\* mark_as_processed after a save that returned True
item_after(cache, db, entry) ==
    LET saved == entry.outcome = "save_true"
    IN  [dup |-> FALSE,
         hits |-> counters_after_check(entry.outcome),
         cache |-> IF saved THEN add_url(cache, entry.link) ELSE cache,
         db |-> IF saved THEN db \cup {entry.link} ELSE db,
         wrote |-> saved,
         raised |-> entry.outcome = "save_raise"]

\* the whole body of the item loop of main.py
item_body(cache, db, entry) ==
    LET c == item_check(cache, db, entry)
    IN  IF c.dup THEN c
        ELSE [item_after(c.cache, db, entry) EXCEPT !.wrote = @ \/ c.wrote]

\* the links storage.exists finds: the pages of before the run and the
\* pages created in it
Database ==
    stored \cup {EntryOf(it).link : it \in {jt \in Items : itemLog[jt].hits = <<"created">>}}

RECURSIVE MainEntries(_, _, _)
\* main.py over the entries k.. of one source, from the memory set, the
\* database and the stats in acc
MainEntries(entries, k, acc) ==
    IF k > Len(entries) THEN acc
    ELSE LET r == item_body(acc.cache, acc.db, entries[k])
         IN  MainEntries(entries, k + 1,
                         [cache |-> r.cache, db |-> r.db, stats |-> Bump(acc.stats, r.hits)])

RECURSIVE MainSources(_, _, _)
\* main.py over the sources f..: the stats it prints
MainSources(srcs, f, acc) ==
    IF f > Len(srcs) THEN acc.stats
    ELSE IF srcs[f].raises
    THEN MainSources(srcs, f + 1, [acc EXCEPT !.stats = Bump(@, <<"errors">>)])
    ELSE MainSources(srcs, f + 1, MainEntries(srcs[f].entries, 1, acc))

\* the steps of an item write its results
ItemEffects(it, r, done) ==
    /\ url_cache' = r.cache
    /\ url_file' = IF r.wrote THEN save_cache(r.cache, now) ELSE url_file
    /\ itemPc' = IF r.raised THEN item_raised(itemPc, it)
                 ELSE [itemPc EXCEPT ![it] = IF done THEN "done" ELSE "pipeline"]
    /\ itemLog' = [itemLog EXCEPT ![it] = [dup |-> r.dup, hits |-> @.hits \o r.hits]]

\* main.py: RSSCollector(feed_config).collect() of the next source
MainCollect(f) ==
    /\ runMode = "blocking" /\ runPc = "running"
    /\ feedPc[f] = "waiting"
    /\ \A g \in Feeds : g < f => feedPc[g] = "done"
    /\ IF sources[f].raises
       THEN /\ stats' = Bump(stats, <<"errors">>)
            /\ feedLog' = [feedLog EXCEPT ![f] = @ + 1]
            /\ feedPc' = [feedPc EXCEPT ![f] = "done"]
       ELSE /\ feedPc' = [feedPc EXCEPT ![f] = IF ItemsOf(f) = {} THEN "done" ELSE "items"]
            /\ UNCHANGED <<stats, feedLog>>
    /\ UNCHANGED <<runMode, sources, stored, runPc, itemPc, feedStats, itemLog,
                   url_cache, url_file, runRest>>

\* main.py: one pass of the loop over the entries of the source
MainItem(it) ==
    /\ runMode = "blocking" /\ runPc = "running"
    /\ feedPc[it[1]] = "items"
    /\ itemPc[it] = "waiting"
    /\ \A jt \in ItemsOf(it[1]) : jt[2] < it[2] => itemPc[jt] = "done"
    /\ LET r == item_body(url_cache, Database, EntryOf(it))
       IN  /\ ItemEffects(it, r, TRUE)
           /\ stats' = Bump(stats, r.hits)
    /\ feedPc' = [feedPc EXCEPT ![it[1]] =
                     IF \E jt \in ItemsOf(it[1]) : itemPc'[jt] = "waiting"
                     THEN "items" ELSE "done"]
    /\ UNCHANGED <<runMode, sources, stored, runPc, feedStats, feedLog, runRest>>

\* main.py: the loop over the sources is over, the statistics are printed
MainFinish ==
    /\ runMode = "blocking" /\ runPc = "running"
    /\ \A f \in Feeds : feedPc[f] = "done"
    /\ runPc' = "done"
    /\ UNCHANGED <<runMode, sources, stored, feedPc, itemPc, feedStats, stats,
                   feedLog, itemLog, url_cache, url_file, runRest>>

\* main_async.py: process_feed_with_limit gets a slot of feed_semaphore and
\* process_feed_async awaits collector.acollect()
FeedEnter(f) ==
    /\ runMode = "concurrent" /\ runPc = "running"
    /\ feedPc[f] = "waiting"
    /\ Cardinality({g \in Feeds : feedPc[g] \in {"collecting", "items"}}) < FeedLimit
    /\ feedPc' = [feedPc EXCEPT ![f] = "collecting"]
    /\ UNCHANGED <<runMode, sources, stored, runPc, itemPc, feedStats, stats,
                   feedLog, itemLog, url_cache, url_file, runRest>>

\* process_feed_async: acollect() returns the entries or raises
FeedCollected(f) ==
    /\ runMode = "concurrent"
    /\ feedPc[f] = "collecting"
    /\ IF sources[f].raises
       THEN /\ feedStats' = [feedStats EXCEPT ![f] = Bump(@, <<"errors">>)]
            /\ feedLog' = [feedLog EXCEPT ![f] = @ + 1]
            /\ feedPc' = [feedPc EXCEPT ![f] = "done"]
       ELSE /\ feedPc' = [feedPc EXCEPT ![f] = "items"]
            /\ UNCHANGED <<feedStats, feedLog>>
    /\ UNCHANGED <<runMode, sources, stored, runPc, itemPc, stats, itemLog,
                   url_cache, url_file, runRest>>

\* process_entry gets a slot of the semaphore of its feed, asks
\* is_duplicate and, for a new link, awaits pipeline.aprocess(entry)
ItemEnter(it) ==
    /\ runMode = "concurrent"
    /\ feedPc[it[1]] = "items"
    /\ itemPc[it] = "waiting"
    /\ Cardinality({jt \in ItemsOf(it[1]) : itemPc[jt] = "pipeline"}) < ItemLimit
    /\ LET r == item_check(url_cache, Database, EntryOf(it))
       IN  /\ ItemEffects(it, r, r.dup)
           /\ feedStats' = [feedStats EXCEPT ![it[1]] = Bump(@, r.hits)]
    /\ UNCHANGED <<runMode, sources, stored, runPc, feedPc, stats, feedLog, runRest>>

\* process_entry resumes when aprocess returns: the None test, save, the
\* counters, mark_as_processed; the slot is given back
ItemResume(it) ==
    /\ runMode = "concurrent"
    /\ itemPc[it] = "pipeline"
    /\ LET r == item_after(url_cache, Database, EntryOf(it))
       IN  /\ ItemEffects(it, r, TRUE)
           /\ feedStats' = [feedStats EXCEPT ![it[1]] = Bump(@, r.hits)]
    /\ UNCHANGED <<runMode, sources, stored, runPc, feedPc, stats, feedLog, runRest>>

\* process_feed_async: gather over the entries returns, the feed returns
\* its stats and gives its slot back
FeedReturn(f) ==
    /\ runMode = "concurrent"
    /\ feedPc[f] = "items"
    /\ \A it \in ItemsOf(f) : itemPc[it] \in {"done", "abandoned"}
    /\ feedPc' = [feedPc EXCEPT ![f] = "done"]
    /\ UNCHANGED <<runMode, sources, stored, runPc, itemPc, feedStats, stats,
                   feedLog, itemLog, url_cache, url_file, runRest>>

\* main_async: gather over the feeds returns and the stats are summed
Aggregate ==
    /\ runMode = "concurrent" /\ runPc = "running"
    /\ \A f \in Feeds : feedPc[f] = "done"
    /\ stats' = [c \in DOMAIN ZeroStats |-> SumStats(feedStats, c, Len(feedStats))]
    /\ runPc' = "done"
    /\ UNCHANGED <<runMode, sources, stored, feedPc, itemPc, feedStats,
                   feedLog, itemLog, url_cache, url_file, runRest>>

(***************************************************************************)
(* The two semaphores of main_async.py on a run large enough for both to   *)
(* fill: FanFeeds feed tasks, the first of which collects FanItems         *)
(* entries.  gather starts the tasks in list order and asyncio.Semaphore   *)
(* serves its waiters first come first served, so tasks get their slots in *)
(* list order.  The feed tasks after the first are alike and are counted.  *)
(***************************************************************************)
\* faulty variant: a semaphore that lets everyone in
has_slot_always(inside, limit) == TRUE

\* asyncio.Semaphore(limit): acquire goes through while fewer than limit
\* holders are inside
has_slot(inside, limit) == inside < limit

FeedsInside == fanOthers.inside + (IF fanFeed = "inside" THEN 1 ELSE 0)

ItemsInside == Cardinality({i \in DOMAIN fanItems : fanItems[i] = "inside"})

FanInit ==
    /\ fanFeed = "waiting"
    /\ fanOthers = [waiting |-> FanFeeds - 1, inside |-> 0, done |-> 0]
    /\ fanItems = [i \in 1..FanItems |-> "waiting"]

FanIdle ==
    /\ fanFeed = "done"
    /\ fanOthers = [waiting |-> 0, inside |-> 0, done |-> 0]
    /\ fanItems = <<>>

\* process_feed_with_limit of the first feed: async with feed_semaphore
FirstFeedEnter ==
    /\ fanFeed = "waiting"
    /\ has_slot(FeedsInside, FeedLimit)
    /\ fanFeed' = "inside"
    /\ UNCHANGED <<fanOthers, fanItems, fanRest>>

\* process_feed_with_limit of the next feed in line
OtherFeedEnter ==
    /\ fanFeed # "waiting"
    /\ fanOthers.waiting > 0
    /\ has_slot(FeedsInside, FeedLimit)
    /\ fanOthers' = [fanOthers EXCEPT !.waiting = @ - 1, !.inside = @ + 1]
    /\ UNCHANGED <<fanFeed, fanItems, fanRest>>

\* process_feed_async of another feed returns; its slot is free
OtherFeedReturn ==
    /\ fanOthers.inside > 0
    /\ fanOthers' = [fanOthers EXCEPT !.inside = @ - 1, !.done = @ + 1]
    /\ UNCHANGED <<fanFeed, fanItems, fanRest>>

\* process_entry of the next entry in line: async with semaphore
FanItemEnter(i) ==
    /\ fanFeed = "inside"
    /\ fanItems[i] = "waiting"
    /\ \A j \in 1..i - 1 : fanItems[j] # "waiting"
    /\ has_slot(ItemsInside, ItemLimit)
    /\ fanItems' = [fanItems EXCEPT ![i] = "inside"]
    /\ UNCHANGED <<fanFeed, fanOthers, fanRest>>

\* process_entry returns (duplicate, drop, saved or error); its slot is free
FanItemLeave(i) ==
    /\ fanItems[i] = "inside"
    /\ fanItems' = [fanItems EXCEPT ![i] = "done"]
    /\ UNCHANGED <<fanFeed, fanOthers, fanRest>>

\* gather over the entries of the first feed returns, the feed returns
FirstFeedReturn ==
    /\ fanFeed = "inside"
    /\ \A i \in DOMAIN fanItems : fanItems[i] = "done"
    /\ fanFeed' = "done"
    /\ UNCHANGED <<fanOthers, fanItems, fanRest>>

(***************************************************************************)
(* The scoring stages: QualityAssessmentProcessor,                         *)
(* InformationVerificationProcessor and PriorityRankingProcessor, chained  *)
(* by ProcessorPipeline in the order main.py builds them.  A score is an   *)
(* integer number of 1/One, so that every product with a weight (tenths)   *)
(* and the thirds of the completeness score are exact.                     *)
(*                                                                         *)
(* The domain of a link is the set of the fragments of interest that occur *)
(* in it: `pattern in domain` is membership.  entry.link is a validated    *)
(* HttpUrl, so urlparse does not raise and the except branches of          *)
(* _assess_credibility and _verify_source are not taken.                   *)
(***************************************************************************)
One == 15000             \* the score 1.0

Tenths(n) == (n * One) \div 10

Minimum(a, b) == IF a < b THEN a ELSE b

Maximum(a, b) == IF a > b THEN a ELSE b

Fragments == {"trusted", "spam", "arxiv.org", ".tk"}

Occurs(pattern, domain) == pattern \in domain

MatchesAny(list, domain) == \E i \in 1..Len(list) : Occurs(list[i], domain)

authoritative_domains ==
    {"arxiv.org", "github.com", "openai.com", "anthropic.com", "deepmind.com",
     "huggingface.co", "paperswithcode.com"}

suspicious_patterns == {".tk", ".ml", ".ga", ".cf", ".gq", "bit.ly", "tinyurl"}

\* faulty variant: the result is not clamped to [0, 1]
clamp_missing(score) == score

\* min(max(score, 0.0), 1.0)
clamp(score) == Minimum(Maximum(score, 0), One)

\* QualityAssessmentProcessor._assess_credibility
assess_credibility(domain, source_whitelist, source_blacklist) ==
    LET base == Tenths(5)
        white == IF MatchesAny(source_whitelist, domain) THEN One ELSE base
        black == IF MatchesAny(source_blacklist, domain) THEN 0 ELSE white
        auth == IF \E a \in authoritative_domains : Occurs(a, domain)
                THEN Minimum(black + Tenths(2), One) ELSE black
    IN  clamp(auth)

MinContentLength == 50   \* min_content_length, the default

\* QualityAssessmentProcessor._assess_completeness, on the lengths of the
\* content and of the title
assess_completeness(content_length, title_length) ==
    LET score == IF content_length < MinContentLength THEN Tenths(2)
                 ELSE IF content_length < 100 THEN Tenths(4)
                 ELSE IF content_length < 200 THEN Tenths(6)
                 ELSE IF content_length < 500 THEN Tenths(8)
                 ELSE One
        has_title == IF title_length > 5 THEN 1 ELSE 0
        has_summary == IF content_length > 20 THEN 1 ELSE 0
        has_link == 1
        element_count == has_title + has_summary + has_link
        element_score == (element_count * One) \div 3
    IN  clamp((score * 6 + element_score * 4) \div 10)

\* QualityAssessmentProcessor._assess_relevance, on the number of topics
assess_relevance(topics) ==
    clamp(IF topics > 0 THEN Minimum(Tenths(7) + Tenths(2), One) ELSE Tenths(7))

\* QualityAssessmentProcessor._assess_timeliness: published is missing,
\* does not parse (or cannot be subtracted from now), or is age days old
assess_timeliness(published) ==
    clamp(IF published.state # "date" THEN Tenths(5)
          ELSE IF published.age < 7 THEN One
          ELSE IF published.age < 30 THEN Tenths(8)
          ELSE IF published.age < 90 THEN Tenths(6)
          ELSE IF published.age < 365 THEN Tenths(4)
          ELSE Tenths(2))

\* PriorityRankingProcessor._calculate_timeliness
calculate_timeliness(published) ==
    IF published.state # "date" THEN Tenths(5)
    ELSE IF published.age < 1 THEN One
    ELSE IF published.age < 7 THEN Tenths(9)
    ELSE IF published.age < 30 THEN Tenths(7)
    ELSE IF published.age < 90 THEN Tenths(5)
    ELSE IF published.age < 365 THEN Tenths(3)
    ELSE Tenths(1)

quality_grade_of(overall_quality) ==
    IF overall_quality >= Tenths(8) THEN "A"
    ELSE IF overall_quality >= Tenths(6) THEN "B"
    ELSE IF overall_quality >= Tenths(4) THEN "C"
    ELSE "D"

\* InformationVerificationProcessor._verify_source: the whitelist returns at
\* once, a suspicious pattern lowers the base, then HTTPS adds or takes 0.2
verify_source_score(domain, https, source_whitelist) ==
    LET base == IF \E p \in suspicious_patterns : Occurs(p, domain)
                THEN Tenths(2) ELSE Tenths(5)
    IN  IF MatchesAny(source_whitelist, domain) THEN One
        ELSE IF https THEN Minimum(base + Tenths(2), One)
        ELSE Maximum(base - Tenths(2), 0)

\* InformationVerificationProcessor._cross_verify
cross_verify_score == Tenths(5)

\* faulty variant: the source score weighs as much as the base
verification_score_even(opts, domain, https) ==
    LET base == Tenths(5)
        source == IF opts.verify_source
                  THEN (base * 5 + verify_source_score(domain, https, opts.source_whitelist) * 5) \div 10
                  ELSE base
    IN  IF opts.cross_verify THEN (source * 7 + cross_verify_score * 3) \div 10 ELSE source

\* InformationVerificationProcessor.process, the composite score:
\* _fact_check_llm returns None, so fact_check_llm leaves the score alone
verification_score_of(opts, domain, https) ==
    LET base == Tenths(5)
        source == IF opts.verify_source
                  THEN (base * 6 + verify_source_score(domain, https, opts.source_whitelist) * 4) \div 10
                  ELSE base
    IN  IF opts.cross_verify THEN (source * 7 + cross_verify_score * 3) \div 10 ELSE source

verification_status_of(score) ==
    IF score >= Tenths(7) THEN "verified"
    ELSE IF score >= Tenths(4) THEN "unverified"
    ELSE "suspicious"

\* PriorityRankingProcessor._calculate_priority_score; the weights are tenths
calculate_priority_score(e, published, weights) ==
    LET quality_score == IF e.overall_quality # 0 THEN e.overall_quality ELSE Tenths(5)
        relevance_score == IF e.topics > 0
                           THEN Minimum(Tenths(5) + (e.topics * 15 * One) \div 100, One)
                           ELSE Tenths(5)
        timeliness_score == calculate_timeliness(published)
        source_score == IF e.verification_score # 0 THEN e.verification_score ELSE Tenths(5)
    IN  clamp((quality_score * weights.quality + relevance_score * weights.relevance
               + timeliness_score * weights.timeliness + source_score * weights.source)
              \div 10)

final_priority_of(priority_score) ==
    IF priority_score >= Tenths(7) THEN "High"
    ELSE IF priority_score >= Tenths(4) THEN "Medium"
    ELSE "Low"

(***************************************************************************)
(* The entry flowing through the chain.  kind is the class of the object   *)
(* ("entry": CollectedEntry, "processed": ProcessedEntry, "dict": a plain  *)
(* dictionary, "none": None); skip is TRUE for a SkipMarker around it.     *)
(* The fields of ProcessedEntry hold their defaults until a stage writes   *)
(* them; None is "none", the empty function for quality_scores.            *)
(***************************************************************************)
ScoreNames == {"credibility", "completeness", "relevance", "timeliness"}

NoScores == [k \in {} |-> 0]

ProcessedDefaults ==
    [kind |-> "processed", skip |-> FALSE, topics |-> 0, priority |-> "Low",
     quality_scores |-> NoScores, quality_grade |-> "none", overall_quality |-> 0,
     verification_status |-> "none", verification_score |-> 0,
     final_priority |-> "Low", priority_score |-> 0]

\* the object a collector made: none of the fields of ProcessedEntry exist
Unprocessed(kind) == [ProcessedDefaults EXCEPT !.kind = kind]

\* `processed = entry` for a ProcessedEntry, ProcessedEntry.from_collected(entry) otherwise
as_processed(x) == IF x.kind = "processed" THEN x ELSE ProcessedDefaults

MinQualityScore == 3     \* min_quality_score, the default, in tenths

\* QualityAssessmentProcessor.process
quality_process(x, c) ==
    LET processed == as_processed(x)
        scores == [k \in ScoreNames |->
                     CASE k = "credibility" ->
                            assess_credibility(c.domain, stage_config.source_whitelist,
                                               stage_config.source_blacklist)
                       [] k = "completeness" ->
                            assess_completeness(c.content_length, c.title_length)
                       [] k = "relevance" -> assess_relevance(processed.topics)
                       [] OTHER -> assess_timeliness(c.published)]
        overall_quality == (scores["credibility"] * 4 + scores["completeness"] * 3
                            + scores["relevance"] * 2 + scores["timeliness"] * 1) \div 10
        written == [processed EXCEPT !.quality_scores = scores,
                                     !.quality_grade = quality_grade_of(overall_quality),
                                     !.overall_quality = overall_quality]
    IN  [out |-> IF overall_quality < Tenths(MinQualityScore) THEN "drop" ELSE "ok",
         val |-> written]

\* InformationVerificationProcessor.process
verification_process(x, c) ==
    LET processed == as_processed(x)
        score == verification_score_of(stage_config.verification, c.domain, c.https)
        written == [processed EXCEPT !.verification_status = verification_status_of(score),
                                     !.verification_score = score]
    IN  [out |-> IF score < Tenths(3) THEN "drop" ELSE "ok", val |-> written]

\* PriorityRankingProcessor.process
ranking_process(x, c) ==
    LET processed == as_processed(x)
        priority_score == calculate_priority_score(processed, c.published, stage_config.weights)
        final_priority == final_priority_of(priority_score)
    IN  [out |-> "ok",
         val |-> [processed EXCEPT !.final_priority = final_priority,
                                   !.priority_score = priority_score,
                                   !.priority = IF @ = "Low" THEN final_priority ELSE @]]

(***************************************************************************)
(* KeywordProcessor (src/processors/keyword_processor.py).  The text of an *)
(* entry is the set of the rule keywords that occur in its normalized      *)
(* title and summary.  process() reads its argument with entry.get(...),   *)
(* which a dictionary has and a CollectedEntry (a pydantic model) has not. *)
(***************************************************************************)
Keywords == {"release", "breaking", "beta"}

\* KeywordProcessor._guess_priority
guess_priority(text, priority_rules) ==
    IF \E i \in 1..Len(priority_rules.High) : priority_rules.High[i] \in text THEN "High"
    ELSE IF \E i \in 1..Len(priority_rules.Medium) : priority_rules.Medium[i] \in text THEN "Medium"
    ELSE "Low"

\* KeywordProcessor.process(entry)
keyword_process(x, c) ==
    IF x.kind # "dict"
    THEN [out |-> "raise", val |-> x]
    ELSE [out |-> "ok",
          val |-> [x EXCEPT !.priority = guess_priority(c.text, stage_config.rules)]]

(***************************************************************************)
(* The inputs: the entries a collector can hand over and the ways main.py  *)
(* can build the stages.                                                   *)
(***************************************************************************)
StageNames == <<"quality", "verification", "ranking">>

Ages == {0, 3, 10, 50, 200, 400}

Published ==
    {[state |-> "missing", age |-> 0], [state |-> "unparsable", age |-> 0]}
    \cup {[state |-> "date", age |-> a] : a \in Ages}

TextSizes ==
    {[content_length |-> 10, title_length |-> 4], [content_length |-> 30, title_length |-> 12],
     [content_length |-> 150, title_length |-> 12], [content_length |-> 600, title_length |-> 12]}

DefaultWeights == [quality |-> 4, relevance |-> 3, timeliness |-> 2, source |-> 1]

HeavyWeights == [quality |-> 8, relevance |-> 6, timeliness |-> 4, source |-> 2]

DefaultVerification ==
    [verify_source |-> TRUE, cross_verify |-> FALSE, fact_check_llm |-> FALSE,
     source_whitelist |-> <<"trusted">>]

NoRules == [High |-> <<>>, Medium |-> <<>>]

PriorityRules ==
    {[High |-> h, Medium |-> m] : h \in {<<>>, <<"release">>, <<"release", "breaking">>},
                                  m \in {<<>>, <<"beta">>, <<"beta", "release">>}}

\* the entry of a feed; text is left empty where no keyword stage reads it
CollectedEntries(kinds, texts) ==
    {[kind |-> k, domain |-> d, https |-> h, published |-> p,
      content_length |-> s.content_length, title_length |-> s.title_length, text |-> t] :
        k \in kinds, d \in SUBSET Fragments, h \in BOOLEAN, p \in Published,
        s \in TextSizes, t \in texts}

\* a stage main.py did not build keeps the options of its class
StageConfigs ==
    {c \in [enabled : [{"quality", "verification", "ranking"} -> BOOLEAN],
            source_whitelist : {<<"trusted">>}, source_blacklist : {<<"spam">>},
            verification : [verify_source : BOOLEAN, cross_verify : BOOLEAN,
                            fact_check_llm : BOOLEAN, source_whitelist : {<<"trusted">>}],
            weights : {DefaultWeights, HeavyWeights},
            rules : {NoRules}] :
        /\ ~c.enabled["verification"] => c.verification = DefaultVerification
        /\ ~c.enabled["ranking"] => c.weights = DefaultWeights}

NoHist == [ran |-> {}, dropped |-> "none", raised |-> "none", ranking_timeliness |-> -1]

StageInit ==
    /\ stage_config \in StageConfigs
    /\ collected \in CollectedEntries({"entry"}, {{}})
    /\ stX = Unprocessed("entry")
    /\ stPc = [at |-> "chain", pos |-> 1]
    /\ stHist = NoHist

StageIdle ==
    /\ stage_config = [enabled |-> [n \in {"quality", "verification", "ranking"} |-> FALSE],
                       source_whitelist |-> <<"trusted">>, source_blacklist |-> <<"spam">>,
                       verification |-> DefaultVerification, weights |-> DefaultWeights,
                       rules |-> NoRules]
    /\ collected = [kind |-> "entry", domain |-> {}, https |-> TRUE,
                    published |-> [state |-> "missing", age |-> 0],
                    content_length |-> 10, title_length |-> 4, text |-> {}]
    /\ stX = Unprocessed("entry")
    /\ stPc = [at |-> "done", pos |-> 0]
    /\ stHist = NoHist

\* ProcessorPipeline._build_chain over the stages main.py appended
StageChain == SelectSeq(StageNames, LAMBDA n : stage_config.enabled[n])

\* process_with_error_handling around _process_with_skip: a SkipMarker has
\* none of the attributes a stage reads, so process() raises on it and the
\* marker is passed on; None becomes a SkipMarker around the stage's input
stage_result(x, r) ==
    IF x.skip THEN x
    ELSE IF r.out = "raise" THEN x
    ELSE IF r.out = "drop"
         THEN [(IF x.kind = "processed" THEN r.val ELSE x) EXCEPT !.skip = TRUE]
    ELSE r.val

StageStep(name, r, timeliness) ==
    /\ stPc.at = "chain"
    /\ stPc.pos \in 1..Len(StageChain)
    /\ StageChain[stPc.pos] = name
    /\ stX' = stage_result(stX, r)
    /\ stPc' = [stPc EXCEPT !.pos = @ + 1]
    /\ stHist' = IF stX.skip THEN stHist
                 ELSE [stHist EXCEPT !.ran = @ \cup {name},
                                     !.dropped = IF r.out = "drop" THEN name ELSE @,
                                     !.ranking_timeliness = IF name = "ranking"
                                                            THEN timeliness ELSE @]
    /\ UNCHANGED <<stage_config, collected, stageRest>>

QualityStage == StageStep("quality", quality_process(stX, collected), -1)

VerificationStage == StageStep("verification", verification_process(stX, collected), -1)

RankingStage ==
    StageStep("ranking", ranking_process(stX, collected),
              calculate_timeliness(collected.published))

\* chain.invoke returns and process() checks for the skip marker; the chain
\* of an empty stage list is the conversion to a ProcessedEntry
StagesReturn ==
    /\ stPc.at = "chain"
    /\ stPc.pos = Len(StageChain) + 1
    /\ stX' = IF Len(StageChain) = 0 THEN as_processed(stX)
              ELSE IF stX.skip THEN Unprocessed("none")
              ELSE stX
    /\ stPc' = [at |-> "done", pos |-> 0]
    /\ UNCHANGED <<stage_config, collected, stHist, stageRest>>

\* a test (or any caller) hands an entry to KeywordProcessor.process
KeywordInit ==
    /\ stage_config \in {[c EXCEPT !.rules = r] :
                            c \in {d \in StageConfigs : \A n \in DOMAIN d.enabled : ~d.enabled[n]},
                            r \in PriorityRules}
    /\ collected \in {c \in CollectedEntries({"entry", "dict"}, SUBSET Keywords) :
                         /\ c.domain = {} /\ c.https
                         /\ c.published.state = "missing" /\ c.content_length = 10}
    /\ stX = Unprocessed(collected.kind)
    /\ stPc = [at |-> "call", pos |-> 0]
    /\ stHist = NoHist

\* KeywordProcessor.process(entry) returns or raises
KeywordCall ==
    /\ stPc.at = "call"
    /\ LET r == keyword_process(stX, collected)
       IN  /\ stX' = r.val
           /\ stHist' = [stHist EXCEPT !.ran = {"keyword"},
                                       !.raised = IF r.out = "raise" THEN "keyword" ELSE @]
    /\ stPc' = [at |-> "done", pos |-> 0]
    /\ UNCHANGED <<stage_config, collected, stageRest>>

(***************************************************************************)
(* Specifications.                                                         *)
(***************************************************************************)
ExtraIdle == LlmIdle /\ LedgerInit /\ ContextInit /\ RunIdle /\ FanIdle /\ StageIdle

InitPipeline == PipelineInit /\ DedupInit /\ CostInit /\ ExtraIdle

NextPipeline ==
    \/ Process
    \/ AprocessStart
    \/ AprocessStep
    \/ AprocessFinish

SpecPipeline == InitPipeline /\ [][NextPipeline]_vars

InitDedup == PipelineIdle /\ DedupInit /\ CostInit /\ ExtraIdle

NextDedup ==
    \/ \E link \in Links : \E exists \in BOOLEAN : IsDuplicate(link, exists)
    \/ \E link \in Links : MarkAsProcessed(link)
    \/ Tick
    \/ Restart

SpecDedup == InitDedup /\ [][NextDedup]_vars

InitCost == PipelineIdle /\ DedupInit /\ CostInit /\ ExtraIdle

NextCost ==
    \/ \E t \in Tasks : LlmProcessStart(t)
    \/ \E t \in Tasks : \E estimated_cost \in EstimatedCosts : LlmCallCheck(t, estimated_cost)
    \/ \E t \in Tasks : \E cost \in ActualCosts : LlmCallRecord(t, cost)
    \/ \E t \in Tasks : LlmCallFail(t)
    \/ \E t \in Tasks : LlmProcessReturn(t)
    \/ Tick

SpecCost == InitCost /\ [][NextCost]_vars

InitLlm ==
    /\ PipelineIdle /\ DedupInit /\ LlmInit /\ LedgerInit /\ ContextInit /\ RunIdle /\ FanIdle
    /\ StageIdle
    /\ \E spent \in PriorSpends : cost_data = LedgerWith(spent)
    /\ llmPc = [t \in Tasks |-> "idle"]
    /\ cLast = NoCheck

NextLlm ==
    \/ ProcessBegin
    \/ FeatureBegin
    \/ CallLlmCheck
    \/ \E outcome \in CallOutcomes : \E cost \in ActualCosts : CallLlmComplete(outcome, cost)
    \/ UpdateMethod
    \/ ProcessAgain

SpecLlm == InitLlm /\ [][NextLlm]_vars

InitLedger == PipelineIdle /\ DedupInit /\ CostInit /\ ExtraIdle

NextLedger ==
    \/ \E t \in Tasks : \E cost \in ActualCosts : RecordCallBegin(t, cost)
    \/ \E t \in Tasks : RecordInit(t)
    \/ \E t \in Tasks : RecordDailyLoad(t)
    \/ \E t \in Tasks : RecordDailyStore(t)
    \/ \E t \in Tasks : RecordMonthLoad(t)
    \/ \E t \in Tasks : RecordMonthStore(t)
    \/ \E t \in Tasks : LedgerCheck(t)

SpecLedger == InitLedger /\ [][NextLedger]_vars

InitContext == PipelineIdle /\ DedupInit /\ CostInit /\ ExtraIdle

NextContext ==
    \/ \E t \in Tasks : SemBegin(t)
    \/ \E t \in Tasks : SemTest(t)
    \/ \E t \in Tasks : SemLoad(t)
    \/ \E t \in Tasks : SemLoadFail(t)
    \/ \E t \in Tasks : SemStore(t)
    \/ \E t \in Tasks : SemCompute(t)

SpecContext == InitContext /\ [][NextContext]_vars

InitRun ==
    /\ PipelineIdle /\ DedupInit /\ CostInit
    /\ LlmIdle /\ LedgerInit /\ ContextInit /\ RunInit /\ FanIdle /\ StageIdle

NextRun ==
    \/ \E f \in Feeds : MainCollect(f)
    \/ \E it \in Items : MainItem(it)
    \/ MainFinish
    \/ \E f \in Feeds : FeedEnter(f)
    \/ \E f \in Feeds : FeedCollected(f)
    \/ \E it \in Items : ItemEnter(it)
    \/ \E it \in Items : ItemResume(it)
    \/ \E f \in Feeds : FeedReturn(f)
    \/ Aggregate

SpecRun == InitRun /\ [][NextRun]_vars

InitFanout ==
    /\ PipelineIdle /\ DedupInit /\ CostInit
    /\ LlmIdle /\ LedgerInit /\ ContextInit /\ RunIdle /\ FanInit /\ StageIdle

NextFanout ==
    \/ FirstFeedEnter
    \/ OtherFeedEnter
    \/ OtherFeedReturn
    \/ \E i \in 1..FanItems : FanItemEnter(i)
    \/ \E i \in 1..FanItems : FanItemLeave(i)
    \/ FirstFeedReturn

\* the event loop runs a task that can run, and what a task awaits inside
\* its section returns
SpecFanout == InitFanout /\ [][NextFanout]_vars /\ WF_vars(NextFanout)

InitPrune == PipelineIdle /\ DedupInit /\ PruneInit /\ ExtraIdle

NextPrune ==
    \/ \E cost \in ActualCosts : RecordCall(cost)
    \/ Tick

SpecPrune == InitPrune /\ [][NextPrune]_vars

StagesElseIdle == PipelineIdle /\ DedupInit /\ CostInit /\ LlmIdle /\ LedgerInit
                  /\ ContextInit /\ RunIdle /\ FanIdle

InitStages == StagesElseIdle /\ StageInit

NextStages ==
    \/ QualityStage
    \/ VerificationStage
    \/ RankingStage
    \/ StagesReturn

SpecStages == InitStages /\ [][NextStages]_vars

InitKeyword == StagesElseIdle /\ KeywordInit

NextKeyword == KeywordCall

SpecKeyword == InitKeyword /\ [][NextKeyword]_vars

(***************************************************************************)
(* Pipeline claims.                                                        *)
(***************************************************************************)
Stages(log) == {log[k].stage : k \in 1..Len(log)}

EnabledStages == {i \in 1..Len(processors) : processors[i].enabled}

\* A finished call did not raise, and after each raising stage every later
\* enabled stage was invoked.
FailOpenCall(done, raised, log) ==
    done =>
        /\ ~raised
        /\ \A k \in 1..Len(log) :
              log[k].out = "raise" =>
                 \A i \in EnabledStages :
                    i > log[k].stage => \E m \in (k+1)..Len(log) : log[m].stage = i

\* C1: pipeline fail-open.  When an enabled stage raises on the entry, every
\* enabled stage after it in the list is still invoked and neither process()
\* nor aprocess() raises.
C1_FailOpen ==
    /\ FailOpenCall(sPc = "done", sRaised, sLog)
    /\ FailOpenCall(aPc = "done", aRaised, aLog)

\* C1 witness: both calls finished, the first enabled stage raised on the
\* entry and a later stage ran and enriched that entry.
C1_Witness ==
    /\ sPc = "done" /\ aPc = "done"
    /\ Len(sLog) >= 2 /\ Len(aLog) >= 2
    /\ sLog[1].out = "raise" /\ aLog[1].out = "raise"
    /\ sLog[2].out = "ok" /\ aLog[2].out = "ok"
    /\ IsProcessedEntry(sResult) /\ IsProcessedEntry(aResult)

SkipResultCall(done, raised, log, result) ==
    (done /\ \E k \in 1..Len(log) : log[k].out = "drop" /\ ~log[k].marker) =>
        (~raised /\ result = NoneValue)

\* C2: when some enabled stage returns DROP for the entry, the pipeline call
\* returns the skip result (None) whatever the later stages do.
C2_DropReturnsSkip ==
    /\ SkipResultCall(sPc = "done", sRaised, sLog, sResult)
    /\ SkipResultCall(aPc = "done", aRaised, aLog, aResult)

NothingAfterDrop(log) ==
    \A k \in 1..Len(log) : log[k].out = "drop" => k = Len(log)

\* C3: once a stage has returned DROP, no later stage's process() is invoked
\* in that pass, neither on the entry nor on the skip marker wrapping it.
C3_NoStageAfterDrop ==
    /\ NothingAfterDrop(sLog)
    /\ NothingAfterDrop(aLog)

ActiveOnly(done, log) ==
    /\ \A k \in 1..Len(log) : processors[log[k].stage].enabled
    /\ \A k \in 1..Len(log) : \A m \in 1..Len(log) :
          k < m => log[k].stage < log[m].stage
    /\ done => Stages(log) = EnabledStages

\* C4: a stage disabled when the pipeline is built is never invoked by
\* process() or aprocess(); the enabled stages run, in list order.
C4_DisabledExcluded ==
    /\ ActiveOnly(sPc = "done", sLog)
    /\ ActiveOnly(aPc = "done", aLog)

\* C4 witness: a disabled stage stands between two enabled ones and both
\* calls have run exactly the two enabled stages.
C4_Witness ==
    /\ Len(processors) = 3
    /\ processors[1].enabled /\ ~processors[2].enabled /\ processors[3].enabled
    /\ sPc = "done" /\ aPc = "done"
    /\ Len(sLog) = 2 /\ Len(aLog) = 2

\* C5: process() and aprocess() invoke the same stages in the same order and
\* return the same outcome (skip or the same entry), also when stages raise
\* or drop.
C5_SyncAsyncEquivalent ==
    (sPc = "done" /\ aPc = "done") =>
        /\ sResult = aResult
        /\ sRaised = aRaised
        /\ sLog = aLog

\* C5 witness: both calls finished on a stage list in which one stage raised
\* and a later one dropped the entry; both returned the skip result.
C5_Witness ==
    /\ sPc = "done" /\ aPc = "done"
    /\ \E k \in 1..Len(aLog) : \E m \in 1..Len(aLog) :
          k < m /\ aLog[k].out = "raise" /\ aLog[m].out = "drop"
    /\ aResult = NoneValue /\ sResult = NoneValue

(***************************************************************************)
(* Deduplicator claims.                                                    *)
(***************************************************************************)
\* C6: after mark_as_processed(e), every is_duplicate call of the same run
\* for an entry with the same link returns true before the TTL has elapsed,
\* whatever the store reports and whatever was checked or marked in between.
C6_MarkedIsDuplicate ==
    (/\ dLast.op = "is_duplicate"
     /\ dLast.marked
     /\ dLast.at - addedAt[dLast.link] < TtlDays) => dLast.result

\* C6 witness: both links were marked in this run, a day has passed since
\* the checked link was marked, the store denies it and the call returns
\* true without asking the store.
C6_Witness ==
    /\ dLast.op = "is_duplicate" /\ dLast.marked /\ dLast.result
    /\ markedRun = Links
    /\ ~dLast.exists /\ ~dLast.storeCalled
    /\ dLast.at > addedAt[dLast.link]
    /\ dLast.at - addedAt[dLast.link] < TtlDays

\* C7: is_duplicate asks the store only on a cache miss; a true result
\* leaves the link in the cache, so a link for which is_duplicate returned
\* true in this process is never looked up in the store again; when cache
\* and store both miss the result is false and the cache is unchanged.
C7_CacheFirstBackfill ==
    dLast.op = "is_duplicate" =>
        /\ dLast.storeCalled <=> ~dLast.hit
        /\ dLast.result => dLast.link \in url_cache
        /\ dLast.known => ~dLast.storeCalled
        /\ (~dLast.hit /\ ~dLast.exists) => (~dLast.result /\ dLast.cacheSame)
        /\ dLast.hit => dLast.result

\* C7 witness: a link never marked in this run, found in the store by an
\* earlier call, is checked again: cache hit, no store lookup.
C7_Witness ==
    /\ dLast.op = "is_duplicate"
    /\ dLast.known /\ ~dLast.marked
    /\ dLast.result /\ ~dLast.storeCalled
    /\ dLast.at = addedAt[dLast.link]
    /\ url_cache = {dLast.link}

\* C8: a link added to the cache at time t no longer counts as a duplicate
\* once the TTL has elapsed since its last add; adding other links and
\* restarting the process do not extend its lifetime.
C8_TtlExpiry ==
    (dLast.op = "is_duplicate" /\ dLast.hit) =>
        dLast.at - addedAt[dLast.link] < TtlDays

(***************************************************************************)
(* Budget-gate claims.                                                     *)
(***************************************************************************)
\* C9: check_budget(estimated) signals budget-exceeded exactly when
\* daily_spent + estimated > daily_limit or monthly_spent + estimated >
\* monthly_budget (strictly: landing on a limit is allowed), and in both
\* outcomes the daily and monthly ledgers are as they were before the call.
C9_CheckBudget ==
    cLast.op = "check_budget" =>
        /\ cost_data = cLast.before
        /\ ~cLast.allowed <=>
              \/ get_daily_cost(cost_data, cLast.at) + cLast.estimated > DailyLimit
              \/ get_monthly_cost(cost_data, cLast.at) + cLast.estimated > MonthlyBudget

\* C9 witness: with 4.5 spent today against the limit 5.0, a check of an
\* estimate that lands exactly on the limit was allowed.
C9_Witness ==
    /\ cLast.op = "check_budget"
    /\ get_daily_cost(cost_data, cLast.at) = 45
    /\ get_daily_cost(cost_data, cLast.at) + cLast.estimated = DailyLimit
    /\ cLast.allowed

\* C10: whatever the sequence and interleaving of LLM-stage calls, each
\* model call preceded by the budget check and followed by the record of its
\* actual cost, no day's recorded spend exceeds the daily limit and no
\* month's recorded spend exceeds the monthly budget.
C10_SpendWithinCeilings ==
    /\ \A key \in DOMAIN cost_data.daily : cost_data.daily[key] <= DailyLimit
    /\ \A key \in DOMAIN cost_data.monthly : cost_data.monthly[key] <= MonthlyBudget

(***************************************************************************)
(* LLM stage claims.                                                       *)
(***************************************************************************)
\* the LLM field(s) the call for `key` fills are still None
FieldNull(key) ==
    CASE key = "summary"    -> ~llmEntry.summary_llm
      [] key = "categorize" -> ~llmEntry.topics_llm /\ ~llmEntry.priority_llm
      [] OTHER              -> key \notin llmEntry.translation /\ key \notin llmAt.trans

AllLlmFieldsNull ==
    /\ ~llmEntry.summary_llm /\ llmEntry.translation = {}
    /\ ~llmEntry.topics_llm /\ ~llmEntry.priority_llm

\* C11: whenever the cost gate signals budget-exceeded, at the initial check
\* of the stage or at the check before a call, completion() is not invoked
\* for that check, the fields that call would have filled stay None, and the
\* stage goes on to return the entry: at the initial check it returns at once
\* with every LLM field None and the method untouched, and no refusal makes
\* the stage raise.
C11_BudgetExceededSkips ==
    /\ llmHist.refusedInit =>
            /\ llmAt.at = "returned"
            /\ llmHist.called = {}
            /\ AllLlmFieldsNull
            /\ llmEntry.processing_method = llmHist.methodIn
    /\ \A key \in llmHist.refused :
            /\ key \notin llmHist.called
            /\ FieldNull(key)
            /\ llmHist.raisedBy # key
    /\ llmAt.phase = "call" => check_budget(cost_data, now, llm_config.estimate)

\* a call refused by the gate while other calls of the same entry went through
C11_Witness ==
    /\ llmAt.at = "returned"
    /\ llmHist.refused # {}
    /\ llmHist.succeeded # {}

(***************************************************************************)
(* Shared state claims.                                                    *)
(***************************************************************************)
\* C12: ledger accesses of concurrent item tasks are serialized: once every
\* record_call has returned, the daily and the monthly total each equal the
\* sum of the costs recorded (the ledger started empty), and no check_budget
\* read the totals while another task stood between a load and its store.
C12_LedgerSerialized ==
    /\ (\A t \in Tasks : recPc[t] = "idle") =>
            /\ get_daily_cost(cost_data, now) = recSum
            /\ get_monthly_cost(cost_data, now) = recSum
    /\ ~recTorn

\* C13: the embedding model of the shared context is acquired once: the
\* loader builds at most one model per run, and any two tasks that hold a
\* model hold the same instance.
C13_AcquireOnce ==
    /\ semLoads <= 1
    /\ \A t, u \in Tasks :
           (semUsed[t] # 0 /\ semUsed[u] # 0) => semUsed[t] = semUsed[u]

\* the calls the features that are switched on owe this entry
KeysDue ==
    (IF FeatureOn("summary") /\ EnoughContent("summary") THEN {"summary"} ELSE {})
    \cup (IF FeatureOn("translate") /\ EnoughContent("translate")
          THEN {llm_config.target_languages[k] : k \in DOMAIN llm_config.target_languages}
          ELSE {})
    \cup (IF FeatureOn("categorize") /\ EnoughContent("categorize")
          THEN {"categorize"} ELSE {})

\* C14: feature isolation.  When the stage has ended and every failure on
\* the way was an API error, a budget refusal or categorization JSON that
\* does not parse, the stage returned the entry, every feature that is
\* switched on was attempted and each of its calls was checked against the
\* budget (and made unless refused), and the fields of the calls that
\* succeeded are set.
C14_FeatureIsolation ==
    (/\ llmAt.at \in {"returned", "raised"}
     /\ llm_config.enabled
     /\ ~llmHist.refusedInit
     /\ llmHist.raisedBy = "none")
    => /\ llmAt.at = "returned"
       /\ \A f \in {"summary", "translate", "categorize"} :
              FeatureOn(f) => f \in llmHist.attempted
       /\ KeysDue = llmHist.called \cup llmHist.refused
       /\ \A key \in llmHist.succeeded : ~FieldNull(key)
       /\ \A key \in llmHist.failed : FieldNull(key)

\* every kind of failure in one entry, and a feature after them that worked:
\* the summary call refused or failed, a translation failed, another
\* translation worked, the categorization answer did not parse
C14_Witness ==
    /\ llmAt.at = "returned"
    /\ "summary" \in llmHist.failed
    /\ "zh" \in llmHist.failed
    /\ "ja" \in llmHist.succeeded
    /\ "categorize" \in llmHist.failed \ llmHist.refused
    /\ llmEntry.translation = {"ja"}

\* C15: when process() returns after at least one feature was used,
\* processing_method is "hybrid" if keyword classification had run on the
\* entry and "llm" if it had not; when no feature was used it is what it was.
C15_ProcessingMethod ==
    llmAt.at = "returned" =>
        llmEntry.processing_method =
            IF llmAt.used
            THEN (IF llmEntry.keyword_ran THEN "hybrid" ELSE "llm")
            ELSE llmHist.methodIn

\* C16: processing the same content for the same feature again within the
\* cache TTL issues no second model call and records no second cost: over
\* the passes of one content, completion() runs at most once per (feature,
\* content) key and record_call at most once.
C16_CachedCallsOnce ==
    \A key \in CallKeys : llmHist.calls[key] <= 1 /\ llmHist.recorded[key] <= 1

(***************************************************************************)
(* Run loop claims.                                                        *)
(***************************************************************************)
\* the one counter the rule of the run loop gives an entry
ExpectedCounter(it) ==
    IF itemLog[it].dup \/ EntryOf(it).outcome = "drop" THEN "skipped"
    ELSE IF EntryOf(it).outcome = "save_true" THEN "created"
    ELSE "errors"

RaisingSources == {f \in Feeds : sources[f].raises}

\* C17: at the end of a run created + skipped + errors is the number of
\* entries the collectors returned plus the number of sources whose
\* collector raised, and every entry incremented exactly one counter:
\* skipped for a URL duplicate or a drop, created when save returned True,
\* errors when save returned False or raised; each counter is the number of
\* entries that incremented it, errors with the raising sources added.
C17_CounterConservation ==
    runPc = "done" =>
        /\ stats.created + stats.skipped + stats.errors
              = Cardinality(Items) + Cardinality(RaisingSources)
        /\ \A it \in Items : itemLog[it].hits = <<ExpectedCounter(it)>>
        /\ \A c \in DOMAIN ZeroStats :
              stats[c] = Cardinality({it \in Items : itemLog[it].hits = <<c>>})
                         + (IF c = "errors" THEN Cardinality(RaisingSources) ELSE 0)

\* a concurrent run that ended with a source whose collector raised, an
\* entry created and an entry counted as an error
C17_Witness ==
    /\ runPc = "done" /\ runMode = "concurrent"
    /\ RaisingSources # {}
    /\ stats.created >= 1 /\ stats.errors >= 2

\* C18: fault isolation.  At the end of a run exactly one error was counted
\* for each source whose collector raised and none for the other sources
\* themselves, every source was gone through and every entry the collectors
\* returned was processed to its counter; at no time is an entry given up
\* because a sibling failed.
C18_FaultIsolation ==
    /\ \A it \in Items : itemPc[it] # "abandoned"
    /\ runPc = "done" =>
           /\ \A f \in Feeds : feedPc[f] = "done"
           /\ \A f \in Feeds : feedLog[f] = IF sources[f].raises THEN 1 ELSE 0
           /\ \A it \in Items : itemPc[it] = "done" /\ Len(itemLog[it].hits) = 1

\* a concurrent run in which the collector of the second source raised, the
\* save of the first entry of the first source raised and the entry after
\* it was created
C18_Witness ==
    /\ runPc = "done" /\ runMode = "concurrent"
    /\ sources[2].raises
    /\ Len(sources[1].entries) = 2
    /\ sources[1].entries[1].outcome = "save_raise"
    /\ itemLog[<<1, 2>>].hits = <<"created">>

\* C19: the counts at the end of a run do not depend on the order of
\* processing: whatever the interleaving, the run ends with the counts the
\* blocking loop gives for the same sources, entries and collaborators.
C19_OrderIndependent ==
    runPc = "done" =>
        stats = MainSources(sources, 1,
                            [cache |-> {}, db |-> stored, stats |-> ZeroStats])

\* C20: bounded fan-out.  At any time at most 10 feeds are being processed
\* and at most 5 entries of a feed are inside the section of process_entry,
\* and an entry task that waits for a slot gets inside.
C20_BoundedFanOut ==
    /\ [](FeedsInside <= FeedLimit /\ ItemsInside <= ItemLimit)
    /\ \A i \in 1..FanItems : (fanItems[i] = "waiting") ~> (fanItems[i] = "inside")

\* both semaphores full with a feed and an entry waiting
C20_Witness ==
    /\ FeedsInside = FeedLimit /\ fanOthers.waiting > 0
    /\ ItemsInside = ItemLimit /\ fanItems[FanItems] = "waiting"

Priorities == {"High", "Medium", "Low"}

Grades == {"A", "B", "C", "D"}

InUnit(score) == 0 <= score /\ score <= One

\* the call has returned a ProcessedEntry
Returned == stPc.at = "done" /\ stX.kind = "processed"

ScoresInRange ==
    /\ stX.priority \in Priorities
    /\ stX.final_priority \in Priorities
    /\ InUnit(stX.overall_quality)
    /\ InUnit(stX.priority_score)
    /\ InUnit(stX.verification_score)
    /\ \A k \in DOMAIN stX.quality_scores : InUnit(stX.quality_scores[k])

\* C21 as claimed: on every entry the pipeline returns, whatever stages are
\* enabled, priority and final_priority are High, Medium or Low, the quality
\* grade is one of A, B, C, D and every score lies in [0, 1].
C21_ValueRangesAsClaimed ==
    Returned => ScoresInRange /\ stX.quality_grade \in Grades

\* C21: on every entry the pipeline returns, whatever stages are enabled,
\* priority and final_priority are High, Medium or Low, every score lies in
\* [0, 1], and the quality grade is one of A, B, C, D when the quality stage
\* has assessed the entry and null when it has not.
C21_ValueRanges ==
    Returned =>
        /\ ScoresInRange
        /\ IF "quality" \in stHist.ran
           THEN stX.quality_grade \in Grades /\ DOMAIN stX.quality_scores = ScoreNames
           ELSE stX.quality_grade = "none" /\ stX.quality_scores = NoScores

\* an entry graded A whose weighted sum passed 1.0 and was cut back to it
C21_Witness ==
    /\ Returned
    /\ stHist.ran = {"quality", "verification", "ranking"}
    /\ stage_config.weights = HeavyWeights
    /\ stX.quality_grade = "A"
    /\ stX.priority_score = One
    /\ stX.final_priority = "High"

\* the priority the rules give a text: High when a High keyword occurs in
\* it, else Medium when a Medium keyword occurs, else Low
PriorityByRules(text, priority_rules) ==
    IF \E i \in DOMAIN priority_rules.High : priority_rules.High[i] \in text THEN "High"
    ELSE IF \E i \in DOMAIN priority_rules.Medium : priority_rules.Medium[i] \in text
         THEN "Medium"
    ELSE "Low"

\* C22: keyword classification of a collected entry always succeeds and
\* never drops: it returns the entry with priority High when a High keyword
\* occurs in its text (also when Medium keywords occur too), else Medium when
\* a Medium keyword occurs, else Low.
C22_KeywordPriority ==
    (stPc.at = "done" /\ "keyword" \in stHist.ran /\ collected.kind = "entry") =>
        /\ stHist.raised = "none"
        /\ stX.skip = FALSE /\ stX.kind # "none"
        /\ stX.priority = PriorityByRules(collected.text, stage_config.rules)

\* C23: when a stage raises, the entry handed to the next stage is
\* unchanged: every field has the value it had when the stage was invoked,
\* also when the stage had written some of its fields before it raised.
\* (An entry the keyword stage has been over is a ProcessedEntry.)
C23_RaiseLeavesEntry ==
    llmAt.at = "raised" =>
        handed_on(FreshEntry(llmHist.methodIn, llmEntry.keyword_ran), llmEntry,
                  llmEntry.keyword_ran)
            = FreshEntry(llmHist.methodIn, llmEntry.keyword_ran)

\* C24: the ranking stage scores timeliness as the quality stage does: for
\* every age of the publication date, and for a missing or unparsable date,
\* the timeliness the ranking stage used equals the quality stage's score
\* (the sub-score it stored, where it ran on the entry).
C24_SameTimeliness ==
    "ranking" \in stHist.ran =>
        /\ stHist.ranking_timeliness = assess_timeliness(collected.published)
        /\ "quality" \in stHist.ran =>
               stHist.ranking_timeliness = stX.quality_scores["timeliness"]

\* C25: credibility short-circuits on the lists: a link whose domain matches
\* the whitelist scores exactly 1.0 and one whose domain matches the
\* blacklist exactly 0.0, whatever else the domain matches; the 0.2 for an
\* authoritative domain is added only for a domain on neither list.
C25_CredibilityShortCircuit ==
    DOMAIN stX.quality_scores = ScoreNames =>
        LET score == stX.quality_scores["credibility"]
            white == MatchesAny(stage_config.source_whitelist, collected.domain)
            black == MatchesAny(stage_config.source_blacklist, collected.domain)
            auth == \E a \in authoritative_domains : Occurs(a, collected.domain)
        IN  /\ white => score = One
            /\ black => score = 0
            /\ ~white /\ ~black => score = IF auth THEN Tenths(7) ELSE Tenths(5)

\* C26: every record prunes exactly the stale daily entries.  When
\* record_call returns, the ledger holds no daily entry dated more than 90
\* days before the day of the call, and nothing else is gone: the monthly
\* totals and the daily entries within 90 days are there with their
\* amounts, the one of the day of the call with the cost added.
C26_PruneExactlyStale ==
    cLast.op = "record_call" =>
        LET before == cLast.before
            date == cLast.at
            cost == cLast.estimated
            was(f, key) == IF key \in DOMAIN f THEN f[key] ELSE 0
        IN  /\ \A key \in DOMAIN cost_data.daily : date - key <= RetentionDays
            /\ \A key \in DOMAIN before.daily \cup {get_date_key(date)} :
                   date - key <= RetentionDays =>
                       /\ key \in DOMAIN cost_data.daily
                       /\ cost_data.daily[key] = was(before.daily, key)
                              + (IF key = get_date_key(date) THEN cost ELSE 0)
            /\ \A key \in DOMAIN before.monthly \cup {get_month_key(date)} :
                   /\ key \in DOMAIN cost_data.monthly
                   /\ cost_data.monthly[key] = was(before.monthly, key)
                          + (IF key = get_month_key(date) THEN cost ELSE 0)

\* a record that removed an entry and kept the one exactly 90 days old
C26_Witness ==
    /\ cLast.op = "record_call"
    /\ \E key \in DOMAIN cLast.before.daily : key \notin DOMAIN cost_data.daily
    /\ get_date_key(cLast.at - RetentionDays) \in DOMAIN cost_data.daily

EntryOrSkip(done, raised, result) ==
    done => (~raised /\ (result = NoneValue \/ IsProcessedEntry(result)))

\* C27: for every stage list, what process() and aprocess() return is the
\* skip result (None) or a ProcessedEntry, also when stages raised, so that
\* the run loop can read priority and topics from whatever is not a skip.
C27_ResultIsProcessedEntry ==
    /\ EntryOrSkip(sPc = "done", sRaised, sResult)
    /\ EntryOrSkip(aPc = "done", aRaised, aResult)

\* store.save was invoked for the entry: it was past the duplicate check
\* and the pipeline returned an entry, so the item counted what save did
SaveInvoked(it) ==
    /\ ~itemLog[it].dup
    /\ EntryOf(it).outcome # "drop"
    /\ itemLog[it].hits \in {<<"created">>, <<"errors">>}

\* C28: within one run no link is saved more than once: of two collected
\* entries with the same link, in the blocking run and in every
\* interleaving of the concurrent one, store.save is invoked for at most
\* one.
C28_SavedOnce ==
    \A it \in Items : \A jt \in Items :
        (it # jt /\ EntryOf(it).link = EntryOf(jt).link)
            => ~(SaveInvoked(it) /\ SaveInvoked(jt))

\* the entries of a link
ItemsWith(link) == {it \in Items : EntryOf(it).link = link}

\* C29: a link is marked as processed only after store.save returned True
\* for an entry: at every moment of a run a link of the URL cache is the
\* link of an entry that was created, or a link the store had before the
\* run and reported as existing to the duplicate check of an entry.  An
\* entry dropped by the pipeline, whose save returned False or whose
\* processing raised puts no link into the cache.
C29_MarkedAfterSave ==
    \A link \in url_cache :
        \/ \E it \in ItemsWith(link) :
              /\ EntryOf(it).outcome = "save_true"
              /\ itemLog[it].hits = <<"created">>
        \/ /\ link \in stored
           /\ \E it \in ItemsWith(link) : itemLog[it].dup

\* a run that ended with the entry of link "a" created and marked, while
\* the two entries of link "b", one whose save returned False and one the
\* pipeline dropped, left "b" out of the cache
C29_Witness ==
    /\ runPc = "done" /\ stored = {}
    /\ Len(sources[1].entries) = 2
    /\ sources[1].entries[1] = [link |-> "b", outcome |-> "save_false"]
    /\ sources[1].entries[2] = [link |-> "b", outcome |-> "drop"]
    /\ <<2, 1>> \in Items
    /\ itemLog[<<2, 1>>].hits = <<"created">>
    /\ url_cache = {"a"}

\* the worst source: a suspicious domain pattern over plain HTTP, outside
\* the whitelist
WorstSource ==
    /\ \E p \in suspicious_patterns : Occurs(p, collected.domain)
    /\ ~collected.https
    /\ ~MatchesAny(stage_config.verification.source_whitelist, collected.domain)

====
